---- MODULE Spec2Model ----
(***************************************************************************)
(* A model of the warren abstract machine (src/machine): the tagged-cell   *)
(* storage, the bytecode program and its builder, the query and statement  *)
(* compilers, the machine's execution loop and the term reifier.           *)
(*                                                                         *)
(* Conventions.  Addresses and program indices are 0-based as in the Rust  *)
(* source; a Rust Vec v is a TLA+ sequence and v[i] is written v[i + 1].   *)
(* An index out of bounds in `v[i]` is a Rust panic: operators report it   *)
(* as the outcome "panic".  A loop that never ends is reported as "hang".  *)
(***************************************************************************)
EXTENDS Integers, Sequences, FiniteSets, TLC

VARIABLES
    machine,    \* the Machine: storage (store, regs), preg, sreg, unification_state
    pc,         \* where the caller / Machine::query is
    query,      \* the Query being executed (program, x_registers, top_level)
    knowledge,  \* the Knowledge: a sequence of fact Programs
    input,      \* the builder calls the query and the facts were compiled from
    last,       \* the last instruction performed: operation, result, machine before it
    failed,     \* some instruction of the program being run has returned false
    result,     \* the QueryResult of the last finished query (register snapshot)
    consulted,  \* how many facts of the knowledge have been run
    builder,    \* a ProgramBuilder under construction
    emitted,    \* the instructions emitted through `builder`, in order
    calls       \* how many times Machine::query has been called on `machine`

vars == <<machine, pc, query, knowledge, input, last, failed, result, consulted,
          builder, emitted, calls>>

(***************************************************************************)
(* Bounds of the model.                                                    *)
(***************************************************************************)
\* builder calls per term when a query is paired with a fact
MaxCalls == 2
\* builder calls per term when a single term is compiled
MaxTermCalls == 3
\* instructions emitted through a ProgramBuilder
MaxEmit == 2
\* largest register operand emitted through a ProgramBuilder
MaxReg == 2
\* cells in a storage driven through its own operations
MaxStore == 3
\* Machine::query calls made on one machine
MaxQueries == 2
\* iterations granted to a loop before it is reported as never ending
MaxSteps == 20
\* nesting granted to the recursive reifier before the stack overflows
MaxDepth == 12
MaxUnify == 1

\* the functor identifiers and arities the enumerated terms draw from: the machine
\* only compares identifiers and arities for equality
Idents == {0, 1}
Arities == 0..2

(***************************************************************************)
(* storage.rs: Cell                                                        *)
(***************************************************************************)
Ref(a) == <<"Ref", a>>
Struct(a) == <<"Struct", a>>
Funct(ident, arity) == <<"Funct", ident, arity>>

IsRef(c) == c[1] = "Ref"
IsStruct(c) == c[1] = "Struct"
IsFunct(c) == c[1] = "Funct"

\* impl Default for Cell
Cell_default == Ref(0)

(***************************************************************************)
(* Option<usize> / Option<Cell>, with the extra outcome "Hang" for a loop  *)
(* that does not terminate.                                                *)
(***************************************************************************)
Some(v) == [k |-> "Some", v |-> v]
None == [k |-> "None", v |-> 0]
Hang == [k |-> "Hang", v |-> 0]

(***************************************************************************)
(* storage.rs: Storage.  A storage is [store |-> <<cells>>, regs |-> n].   *)
(***************************************************************************)
Storage_new == [store |-> <<>>, regs |-> 0]

InBounds(store, a) == a >= 0 /\ a < Len(store)
At(store, a) == store[a + 1]
SetAt(store, a, c) == [store EXCEPT ![a + 1] = c]

\* Vec::resize_with(regs, Default::default): truncate, or extend with defaults
resize_with(store, n) ==
    IF Len(store) >= n
    THEN SubSeq(store, 1, n)
    ELSE store \o [i \in 1..(n - Len(store)) |-> Cell_default]

Storage_reset(st, regs) == [store |-> resize_with(st.store, regs), regs |-> regs]

Storage_registers(st) == SubSeq(st.store, 1, st.regs)

\* push_struct whose Struct cell holds its own address
push_struct_own_address(store, ident, arity) ==
    LET s2 == store \o <<Struct(Len(store)), Funct(ident, arity)>>
    IN  [store |-> s2, cell |-> s2[Len(s2) - 1]]

\* each push returns [store |-> the store afterwards, cell |-> the returned cell]
push_struct(store, ident, arity) ==
    LET s1 == Append(store, Struct(Len(store) + 1))
        s2 == Append(s1, Funct(ident, arity))
    IN  [store |-> s2, cell |-> At(s2, Len(s2) - 2)]

push_var(store) ==
    LET s1 == Append(store, Ref(Len(store)))
    IN  [store |-> s1, cell |-> At(s1, Len(s1) - 1)]

push_cell(store, cell) ==
    LET s1 == Append(store, cell)
    IN  [store |-> s1, cell |-> At(s1, Len(s1) - 1)]

RECURSIVE deref_loop(_, _, _)
deref_loop(store, addr, fuel) ==
    IF ~InBounds(store, addr) THEN None
    ELSE LET c == At(store, addr) IN
         IF ~IsRef(c) THEN Some(addr)
         ELSE IF c[2] = addr THEN Some(c[2])
         ELSE IF fuel = 0 THEN Hang
         ELSE deref_loop(store, c[2], fuel - 1)

\* deref_idx that follows one link only
deref_one_link(store, addr) ==
    IF ~InBounds(store, addr) THEN None
    ELSE IF IsRef(At(store, addr)) THEN Some(At(store, addr)[2]) ELSE Some(addr)

\* a chain of distinct addresses is no longer than the store; a longer walk is a cycle
deref_idx(store, addr) == deref_loop(store, addr, Len(store))

deref(store, addr) ==
    LET idx == deref_idx(store, addr)
    IN  IF idx.k = "Some" THEN Some(At(store, idx.v)) ELSE idx

\* bind without its first arm: only a free a2 is ever bound
bind_second_only(store, a1, a2) ==
    IF At(store, a2) = Ref(a2) THEN SetAt(store, a2, Ref(a1)) ELSE store

\* bind that overwrites a1 whatever it holds
bind_unchecked(store, a1, a2) == SetAt(store, a1, Ref(a2))

\* both addresses are indexed unchecked: the caller passes in-bounds addresses
bind(store, a1, a2) ==
    LET c1 == At(store, a1)
        c2 == At(store, a2)
    IN  IF IsRef(c1) /\ c1[2] = a1 THEN SetAt(store, a1, Ref(a2))
        ELSE IF IsRef(c2) /\ c2[2] = a2 THEN SetAt(store, a2, Ref(a1))
        ELSE store

\* Vec::get(v).to_funct()
get_funct(store, v) ==
    IF InBounds(store, v) /\ IsFunct(At(store, v)) THEN Some(At(store, v)) ELSE None

\* the pairs pushed for i in 1..=n, in push order
ArgPairs(v1, v2, n) == [i \in 1..n |-> <<v1 + i, v2 + i>>]

Pop(stack) == SubSeq(stack, 1, Len(stack) - 1)
Top(stack) == stack[Len(stack)]

\* the while-let loop of unify: [store, res] with res in "true", "false", "hang"
RECURSIVE unify_loop(_, _, _)
unify_loop(store, pld, fuel) ==
    IF pld = <<>> THEN [store |-> store, res |-> "true"]
    ELSE IF fuel = 0 THEN [store |-> store, res |-> "hang"]
    ELSE
    LET top == Top(pld)
        rest == Pop(pld)
        d1 == deref_idx(store, top[1])
        d2 == IF d1.k = "Some" THEN deref_idx(store, top[2]) ELSE d1
    IN  IF d1.k = "Hang" \/ d2.k = "Hang" THEN [store |-> store, res |-> "hang"]
        ELSE IF d1.k = "None" \/ d2.k = "None" THEN [store |-> store, res |-> "false"]
        ELSE IF d1.v = d2.v THEN unify_loop(store, rest, fuel - 1)
        ELSE
        LET c1 == At(store, d1.v)
            c2 == At(store, d2.v)
        IN  IF IsRef(c1) \/ IsRef(c2)
            THEN unify_loop(bind(store, d1.v, d2.v), rest, fuel - 1)
            ELSE IF IsStruct(c1) /\ IsStruct(c2)
            THEN LET f1 == get_funct(store, c1[2])
                     f2 == IF f1.k = "Some" THEN get_funct(store, c2[2]) ELSE f1
                 IN  IF f1.k = "None" \/ f2.k = "None"
                     THEN [store |-> store, res |-> "false"]
                     ELSE IF f1.v[2] = f2.v[2] /\ f1.v[3] = f2.v[3]
                     THEN unify_loop(store, rest \o ArgPairs(c1[2], c2[2], f1.v[3]),
                                     fuel - 1)
                     ELSE [store |-> store, res |-> "false"]
            ELSE [store |-> store, res |-> "false"]

\* unify that binds its first address to the second before comparing
unify_binding(store, a1, a2) ==
    unify_loop(bind_unchecked(store, a1, a2), <<<<a1, a2>>>>, MaxSteps)

\* unify that never fails
unify_accepting(store, a1, a2) == [store |-> store, res |-> "true"]

unify(store, a1, a2) == unify_loop(store, <<<<a1, a2>>>>, MaxSteps)

(***************************************************************************)
(* program.rs: OpCode, Program, ProgramBuilder; operation.rs: Operation    *)
(***************************************************************************)
OpCode_PutStructure == 0
OpCode_SetVariable == 1
OpCode_SetValue == 2
OpCode_GetStructure == 3
OpCode_UnifyVariable == 4
OpCode_UnifyValue == 5

PutStructure(ident, arity, xreg) == <<"PutStructure", ident, arity, xreg>>
SetVariable(xreg) == <<"SetVariable", xreg>>
SetValue(xreg) == <<"SetValue", xreg>>
GetStructure(ident, arity, xreg) == <<"GetStructure", ident, arity, xreg>>
UnifyVariable(xreg) == <<"UnifyVariable", xreg>>
UnifyValue(xreg) == <<"UnifyValue", xreg>>

\* the register operand of an operation
XReg(op) == op[Len(op)]

\* a program word buffer is 0-indexed
Word(words, i) == words[i + 1]

Program_put_structure(words, index) ==
    IF Len(words) > index + 3
    THEN Some(PutStructure(Word(words, index + 1), Word(words, index + 2),
                           Word(words, index + 3)))
    ELSE None

\* set_variable that decodes whenever the opcode word is there
Program_set_variable_unchecked(words, index) ==
    Some(SetVariable(IF Len(words) > index + 1 THEN Word(words, index + 1) ELSE 0))

Program_set_variable(words, index) ==
    IF Len(words) > index + 1 THEN Some(SetVariable(Word(words, index + 1))) ELSE None

Program_set_value(words, index) ==
    IF Len(words) > index + 1 THEN Some(SetValue(Word(words, index + 1))) ELSE None

Program_get_structure(words, index) ==
    IF Len(words) > index + 3
    THEN Some(GetStructure(Word(words, index + 1), Word(words, index + 2),
                           Word(words, index + 3)))
    ELSE None

Program_unify_variable(words, index) ==
    IF Len(words) > index + 1 THEN Some(UnifyVariable(Word(words, index + 1))) ELSE None

Program_unify_value(words, index) ==
    IF Len(words) > index + 1 THEN Some(UnifyValue(Word(words, index + 1))) ELSE None

\* Program::operation
operation(program, index) ==
    LET words == program.program IN
    IF ~(index >= 0 /\ index < Len(words)) THEN None
    ELSE LET op == Word(words, index) IN
         IF op = OpCode_PutStructure THEN Program_put_structure(words, index)
         ELSE IF op = OpCode_SetVariable THEN Program_set_variable(words, index)
         ELSE IF op = OpCode_SetValue THEN Program_set_value(words, index)
         ELSE IF op = OpCode_GetStructure THEN Program_get_structure(words, index)
         ELSE IF op = OpCode_UnifyVariable THEN Program_unify_variable(words, index)
         ELSE IF op = OpCode_UnifyValue THEN Program_unify_value(words, index)
         ELSE None

x_registers(program) == program.xregs

\* the stride of the get/unify instructions: their word length
advance_unify(op) == IF op[1] = "GetStructure" THEN 4 ELSE 2

\* advance that takes every instruction for a two-word one
advance_two_words(op) == 2

\* Operation::advance
advance(op) ==
    IF op[1] = "PutStructure" THEN 4
    ELSE IF op[1] = "SetVariable" THEN 2
    ELSE IF op[1] = "SetValue" THEN 2
    ELSE advance_unify(op)

Max(a, b) == IF a >= b THEN a ELSE b

ProgramBuilder_default == [program |-> <<>>, xregs |-> 0]

ProgramBuilder_put_structure(pb, ident, arity, xreg) ==
    [program |-> pb.program \o <<OpCode_PutStructure, ident, arity, xreg>>,
     xregs |-> Max(pb.xregs, xreg + 1)]

ProgramBuilder_set_variable(pb, xreg) ==
    [program |-> pb.program \o <<OpCode_SetVariable, xreg>>,
     xregs |-> Max(pb.xregs, xreg + 1)]

ProgramBuilder_set_value(pb, xreg) ==
    [program |-> pb.program \o <<OpCode_SetValue, xreg>>,
     xregs |-> Max(pb.xregs, xreg + 1)]

ProgramBuilder_get_structure(pb, ident, arity, xreg) ==
    [program |-> pb.program \o <<OpCode_GetStructure, ident, arity, xreg>>,
     xregs |-> pb.xregs]

ProgramBuilder_unify_variable(pb, xreg) ==
    [program |-> pb.program \o <<OpCode_UnifyVariable, xreg>>, xregs |-> pb.xregs]

ProgramBuilder_unify_value(pb, xreg) ==
    [program |-> pb.program \o <<OpCode_UnifyValue, xreg>>, xregs |-> pb.xregs]

ProgramBuilder_build(pb) == [program |-> pb.program, xregs |-> pb.xregs]

\* emitting one operation through the builder method of its kind
ProgramBuilder_emit(pb, op) ==
    IF op[1] = "PutStructure" THEN ProgramBuilder_put_structure(pb, op[2], op[3], op[4])
    ELSE IF op[1] = "SetVariable" THEN ProgramBuilder_set_variable(pb, op[2])
    ELSE IF op[1] = "SetValue" THEN ProgramBuilder_set_value(pb, op[2])
    ELSE IF op[1] = "GetStructure"
         THEN ProgramBuilder_get_structure(pb, op[2], op[3], op[4])
    ELSE IF op[1] = "UnifyVariable" THEN ProgramBuilder_unify_variable(pb, op[2])
    ELSE ProgramBuilder_unify_value(pb, op[2])

(***************************************************************************)
(* query.rs: QueryBuilder.  A builder is [program, next_register]; each    *)
(* call returns [b |-> the builder afterwards, ref |-> the QueryRef].      *)
(***************************************************************************)
QueryBuilder_default == [program |-> ProgramBuilder_default, next_register |-> 1]

QueryBuilder_variable(qb) ==
    LET register == qb.next_register IN
    [b |-> [program |-> ProgramBuilder_set_variable(qb.program, register),
            next_register |-> qb.next_register + 1],
     ref |-> register]

RECURSIVE EmitSetValues(_, _, _)
EmitSetValues(pb, subterms, i) ==
    IF i > Len(subterms) THEN pb
    ELSE EmitSetValues(ProgramBuilder_set_value(pb, subterms[i]), subterms, i + 1)

QueryBuilder_structure(qb, ident, subterms) ==
    LET register == qb.next_register
        p1 == ProgramBuilder_put_structure(qb.program, ident, Len(subterms), register)
    IN  [b |-> [program |-> EmitSetValues(p1, subterms, 1),
                next_register |-> qb.next_register + 1],
         ref |-> register]

\* the handle the query's root cell is read from (Machine::query, tests: build(p))
Query_top_level(root) == root

QueryBuilder_build(qb, root) ==
    [program |-> ProgramBuilder_build(qb.program), top_level |-> Query_top_level(root)]

(***************************************************************************)
(* statement.rs: StatementBuilder.  registers is the Vec of allocations:   *)
(* <<"Var">> or <<"Struct", ident, <<subterm registers>>>>.                *)
(***************************************************************************)
Alloc_Var == <<"Var">>
Alloc_Struct(ident, st) == <<"Struct", ident, st>>

StatementBuilder_default == [registers |-> <<Alloc_Var>>]

StatementBuilder_variable(sb) ==
    LET regs == Append(sb.registers, Alloc_Var) IN
    [b |-> [registers |-> regs], ref |-> Len(regs) - 1]

StatementBuilder_structure(sb, ident, subterms) ==
    LET regs == Append(sb.registers, Alloc_Struct(ident, subterms)) IN
    [b |-> [registers |-> regs], ref |-> Len(regs) - 1]

\* swap that leaves the registers where they are
swap_nothing(registers, r) == registers

\* slice::swap(0, r)
swap(registers, r) ==
    [i \in 1..Len(registers) |->
        IF i = 1 THEN registers[r + 1]
        ELSE IF i = r + 1 THEN registers[1]
        ELSE registers[i]]

\* the for loop over the subterms of one structure: [program, visited, stack]
RECURSIVE build_children(_, _, _)
build_children(st, i, acc) ==
    IF i > Len(st) THEN acc
    ELSE LET c == st[i]
             seen == c \in acc.visited
         IN  build_children(st, i + 1,
                [program |-> IF seen THEN ProgramBuilder_unify_value(acc.program, c)
                             ELSE ProgramBuilder_unify_variable(acc.program, c),
                 visited |-> acc.visited \cup {c},
                 stack |-> Append(acc.stack, c)])

\* the while-let loop over the stack
RECURSIVE build_loop(_, _)
build_loop(registers, acc) ==
    IF acc.stack = <<>> THEN acc.program
    ELSE LET reg == Top(acc.stack)
             popped == [acc EXCEPT !.stack = Pop(acc.stack)]
             alloc == registers[reg + 1]
         IN  IF alloc[1] = "Struct"
             THEN build_loop(registers,
                    build_children(alloc[3], 1,
                      [popped EXCEPT !.program =
                          ProgramBuilder_get_structure(popped.program, alloc[2],
                                                       Len(alloc[3]), reg)]))
             ELSE build_loop(registers, popped)

\* build that takes every register for visited already
StatementBuilder_build_all_visited(sb, r) ==
    ProgramBuilder_build(
        build_loop(swap(sb.registers, r),
                   [program |-> ProgramBuilder_default,
                    visited |-> 0..Len(sb.registers), stack |-> <<0>>]))

StatementBuilder_build(sb, r) ==
    ProgramBuilder_build(
        build_loop(swap(sb.registers, r),
                   [program |-> ProgramBuilder_default, visited |-> {}, stack |-> <<0>>]))

(***************************************************************************)
(* machine.rs: Machine.  A machine is                                      *)
(*   [storage |-> [store, regs], preg, sreg, unification_state].           *)
(* Every instruction returns [m |-> the machine afterwards, res |-> r]     *)
(* with r in "true", "false" (the returned bool), "panic", "hang".         *)
(***************************************************************************)
Machine_default ==
    [storage |-> Storage_new, preg |-> 0, sreg |-> 0, unification_state |-> "Read"]

WithStore(m, store) == [m EXCEPT !.storage.store = store]

\* self.storage[xreg] = cell, after the right-hand side has been evaluated
StoreReg(m, xreg, cell) ==
    IF InBounds(m.storage.store, xreg)
    THEN [m |-> WithStore(m, SetAt(m.storage.store, xreg, cell)), res |-> "true"]
    ELSE [m |-> m, res |-> "panic"]

Machine_put_structure(m, ident, arity, xreg) ==
    LET p == push_struct(m.storage.store, ident, arity)
    IN  StoreReg(WithStore(m, p.store), xreg, p.cell)

Machine_set_variable(m, xreg) ==
    LET p == push_var(m.storage.store)
    IN  StoreReg(WithStore(m, p.store), xreg, p.cell)

\* SetValue that pushes a new unbound variable where the register's cell belongs
Machine_set_value_fresh(m, xreg) ==
    IF InBounds(m.storage.store, xreg)
    THEN [m |-> WithStore(m, push_var(m.storage.store).store), res |-> "true"]
    ELSE [m |-> m, res |-> "panic"]

Machine_set_value(m, xreg) ==
    IF InBounds(m.storage.store, xreg)
    THEN [m |-> WithStore(m, push_cell(m.storage.store,
                                       At(m.storage.store, xreg)).store),
          res |-> "true"]
    ELSE [m |-> m, res |-> "panic"]

\* get_structure that pushes the structure but leaves the variable unbound
Machine_get_structure_unbound(m, ident, arity, xreg) ==
    LET store == m.storage.store
        item == deref(store, xreg)
    IN  IF item.k = "Some" /\ IsRef(item.v)
        THEN [m |-> [WithStore(m, push_struct(store, ident, arity).store)
                        EXCEPT !.unification_state = "Write"],
              res |-> "true"]
        ELSE IF item.k = "Some" /\ IsStruct(item.v) /\ InBounds(store, item.v[2])
                  /\ Funct(ident, arity) = At(store, item.v[2])
        THEN [m |-> [m EXCEPT !.sreg = item.v[2] + 1, !.unification_state = "Read"],
              res |-> "true"]
        ELSE [m |-> m, res |-> "false"]

\* GetStructure that compares the identifier of the functor cell and not its arity
Machine_get_structure_any_arity(m, ident, arity, xreg) ==
    LET store == m.storage.store
        item == deref(store, xreg)
    IN  IF item.k = "Hang" THEN [m |-> m, res |-> "hang"]
        ELSE IF item.k = "None" THEN [m |-> m, res |-> "false"]
        ELSE IF IsRef(item.v)
        THEN LET idx == Len(store)
                 p == push_struct(store, ident, arity)
             IN  [m |-> [WithStore(m, bind(p.store, item.v[2], idx))
                            EXCEPT !.unification_state = "Write"],
                  res |-> "true"]
        ELSE IF IsStruct(item.v)
        THEN IF ~InBounds(store, item.v[2]) THEN [m |-> m, res |-> "panic"]
             ELSE IF IsFunct(At(store, item.v[2])) /\ At(store, item.v[2])[2] = ident
             THEN [m |-> [m EXCEPT !.sreg = item.v[2] + 1,
                                   !.unification_state = "Read"],
                   res |-> "true"]
             ELSE [m |-> m, res |-> "false"]
        ELSE [m |-> m, res |-> "false"]

Machine_get_structure(m, ident, arity, xreg) ==
    LET store == m.storage.store
        item == deref(store, xreg)
    IN  IF item.k = "Hang" THEN [m |-> m, res |-> "hang"]
        ELSE IF item.k = "None" THEN [m |-> m, res |-> "false"]
        ELSE IF IsRef(item.v)
        THEN LET idx == Len(store)
                 p == push_struct(store, ident, arity)
             IN  [m |-> [WithStore(m, bind(p.store, item.v[2], idx))
                            EXCEPT !.unification_state = "Write"],
                  res |-> "true"]
        ELSE IF IsStruct(item.v)
        THEN IF ~InBounds(store, item.v[2]) THEN [m |-> m, res |-> "panic"]
             ELSE IF Funct(ident, arity) = At(store, item.v[2])
             THEN [m |-> [m EXCEPT !.sreg = item.v[2] + 1,
                                   !.unification_state = "Read"],
                   res |-> "true"]
             ELSE [m |-> m, res |-> "false"]
        ELSE [m |-> m, res |-> "false"]

IncSreg(out) ==
    IF out.res = "true" THEN [out EXCEPT !.m.sreg = out.m.sreg + 1] ELSE out

\* UnifyVariable that leaves sreg where it was in read mode
Machine_unify_variable_stuck(m, xreg) ==
    IF m.unification_state = "Read"
    THEN IF InBounds(m.storage.store, m.sreg)
         THEN StoreReg(m, xreg, At(m.storage.store, m.sreg))
         ELSE [m |-> m, res |-> "panic"]
    ELSE LET p == push_var(m.storage.store)
         IN  IncSreg(StoreReg(WithStore(m, p.store), xreg, p.cell))

Machine_unify_variable(m, xreg) ==
    IF m.unification_state = "Read"
    THEN IF InBounds(m.storage.store, m.sreg)
         THEN IncSreg(StoreReg(m, xreg, At(m.storage.store, m.sreg)))
         ELSE [m |-> m, res |-> "panic"]
    ELSE LET p == push_var(m.storage.store)
         IN  IncSreg(StoreReg(WithStore(m, p.store), xreg, p.cell))

\* the bool returned by Storage::unify is dropped
Machine_unify_value(m, xreg) ==
    IF m.unification_state = "Read"
    THEN LET u == unify(m.storage.store, xreg, m.sreg)
         IN  IF u.res = "hang" THEN [m |-> WithStore(m, u.store), res |-> "hang"]
             ELSE IncSreg([m |-> WithStore(m, u.store), res |-> "true"])
    ELSE IF InBounds(m.storage.store, xreg)
         THEN IncSreg([m |-> WithStore(m, push_cell(m.storage.store,
                                                    At(m.storage.store, xreg)).store),
                       res |-> "true"])
         ELSE [m |-> m, res |-> "panic"]

Returned(res) == res \in {"true", "false"}

perform_op(m, op) ==
    LET out ==
          IF op[1] = "PutStructure" THEN Machine_put_structure(m, op[2], op[3], op[4])
          ELSE IF op[1] = "SetVariable" THEN Machine_set_variable(m, op[2])
          ELSE IF op[1] = "SetValue" THEN Machine_set_value(m, op[2])
          ELSE IF op[1] = "GetStructure"
               THEN Machine_get_structure(m, op[2], op[3], op[4])
          ELSE IF op[1] = "UnifyVariable" THEN Machine_unify_variable(m, op[2])
          ELSE Machine_unify_value(m, op[2])
    IN  IF Returned(out.res)
        THEN [out EXCEPT !.m.preg = out.m.preg + advance(op)]
        ELSE out

(***************************************************************************)
(* term_builder.rs: Machine::build_term with the test TermBuilder          *)
(* (test_utils/ast.rs).  A term is [k, id, args] with k in "Var", "Const", *)
(* "Struct"; k is "None" for Option::None, "Panic" for a slice out of      *)
(* range, "Hang" for a dereference that never ends and "Overflow" for a    *)
(* recursion deeper than the stack.                                        *)
(***************************************************************************)
Term_Var(id) == [k |-> "Var", id |-> id, args |-> <<>>]
Term_Const(ident) == [k |-> "Const", id |-> ident, args |-> <<>>]
Term_Struct(ident, subterms) == [k |-> "Struct", id |-> ident, args |-> subterms]
NoTerm(k) == [k |-> k, id |-> 0, args |-> <<>>]

IsTerm(t) == t.k \in {"Var", "Const", "Struct"}

\* collect::<Option<Vec<_>>>(): the first subterm that is no term ends the collection
RECURSIVE FirstFailure(_, _)
FirstFailure(ts, i) ==
    IF i > Len(ts) THEN 0
    ELSE IF ~IsTerm(ts[i]) THEN i
    ELSE FirstFailure(ts, i + 1)

RECURSIVE build_term_rec(_, _, _)
build_term_rec(store, cell, depth) ==
    IF depth = 0 THEN NoTerm("Overflow")
    ELSE IF IsRef(cell)
    THEN LET target == deref(store, cell[2])
         IN  IF target.k = "Hang" THEN NoTerm("Hang")
             ELSE IF target.k = "None" THEN NoTerm("None")
             ELSE IF IsRef(target.v) THEN Term_Var(target.v[2])
             ELSE build_term_rec(store, target.v, depth - 1)
    ELSE IF IsStruct(cell)
    THEN LET idx == cell[2]
             f == get_funct(store, idx)
         IN  IF f.k = "None" THEN NoTerm("None")
             ELSE IF f.v[3] = 0 THEN Term_Const(f.v[2])
             ELSE IF ~InBounds(store, idx + f.v[3]) THEN NoTerm("Panic")
             ELSE LET subterms == [i \in 1..f.v[3] |->
                                     build_term_rec(store, At(store, idx + i), depth - 1)]
                      bad == FirstFailure(subterms, 1)
                  IN  IF bad = 0 THEN Term_Struct(f.v[2], subterms) ELSE subterms[bad]
    ELSE NoTerm("None")

build_term(m, cell) == build_term_rec(m.storage.store, cell, MaxDepth)

\* Machine::query, the tail: the register snapshot handed out as QueryResult
QueryResult(m, q) == SubSeq(Storage_registers(m.storage), 1, x_registers(q.program))

\* QueryResult::build_term
QueryResult_build_term(m, regs, qref) ==
    IF qref >= 0 /\ qref < Len(regs) THEN build_term(m, regs[qref + 1]) ELSE NoTerm("None")

(***************************************************************************)
(* knowledge.rs: Knowledge, a Vec of fact programs                         *)
(***************************************************************************)
Knowledge_new == <<>>

Knowledge_add(k, fact) == Append(k, fact)

RECURSIVE MaxXRegs(_, _)
MaxXRegs(programs, i) ==
    IF i > Len(programs) THEN 0
    ELSE Max(x_registers(programs[i]), MaxXRegs(programs, i + 1))

\* .max().unwrap_or(0)
Knowledge_x_registers(k) == MaxXRegs(k, 1)

\* programs() with no take(1): every fact is consulted
Consulted_every_fact(k) == k

\* knowledge.programs().take(1)
Consulted(k) == SubSeq(k, 1, IF Len(k) >= 1 THEN 1 ELSE 0)

(***************************************************************************)
(* The callers' terms.  A term is given as the sequence of builder calls   *)
(* that builds it post-order (as repl/context.rs does): call i is          *)
(* variable() or structure(ident, subterms), its subterms being the        *)
(* handles returned by earlier calls, named by call number.  The root is   *)
(* the handle of the last call.                                            *)
(***************************************************************************)
CallVariable == [call |-> "variable", ident |-> 0, subterms |-> <<>>]
CallStructure(ident, subterms) ==
    [call |-> "structure", ident |-> ident, subterms |-> subterms]

HandleSeqs(h) == UNION {[1..n -> 1..h] : n \in Arities}

CallsAt(i) ==
    {CallVariable} \cup
    {CallStructure(id, st) : id \in Idents, st \in HandleSeqs(i - 1)}

RECURSIVE ScriptsOfLen(_)
ScriptsOfLen(l) ==
    IF l = 0 THEN {<<>>}
    ELSE {Append(s, c) : s \in ScriptsOfLen(l - 1), c \in CallsAt(l)}

Range(f) == {f[i] : i \in DOMAIN f}

\* every handle but the root is a subterm of a later call, as in a term
\* compiled from a syntax tree
Connected(s) ==
    \A i \in 1..(Len(s) - 1) : \E j \in (i + 1)..Len(s) : i \in Range(s[j].subterms)

Scripts(n) == {s \in UNION {ScriptsOfLen(l) : l \in 1..n} : Connected(s)}

\* machine.rs, tests::l0_query: p(Z, h(Z, W), f(W)) with p/3 = 2, h/2 = 1, f/1 = 0
ExampleQuery ==
    << CallVariable, CallVariable, CallStructure(1, <<2, 1>>),
       CallStructure(0, <<1>>), CallStructure(2, <<2, 3, 4>>) >>

\* machine.rs, tests::l0_program: p(f(X), h(Y, f(a)), Y) with the identifiers of
\* its comment, p/3 = 2, h/2 = 1, f/1 = 0, a/0 = 3
ExampleFact ==
    << CallVariable, CallStructure(0, <<1>>), CallVariable, CallStructure(3, <<>>),
       CallStructure(0, <<4>>), CallStructure(1, <<3, 5>>),
       CallStructure(2, <<2, 6, 3>>) >>

\* p(Z, W) built W first, and p(a, b): the smallest pair whose arguments differ
PairQuery == << CallVariable, CallVariable, CallStructure(1, <<2, 1>>) >>
PairFact == << CallStructure(0, <<>>), CallStructure(1, <<>>), CallStructure(1, <<1, 2>>) >>

\* q(s(Y, X), s(Y, X)) with one handle for both arguments, and the fact
\* q(s(B, g(E, F)), s(A, A)): the smallest pair found whose fact registers reach the
\* heap cells of the query's variables
TwinQuery ==
    << CallVariable, CallVariable, CallStructure(0, <<2, 1>>), CallStructure(1, <<3, 3>>) >>
TwinFact ==
    << CallVariable, CallStructure(0, <<1, 1>>), CallVariable, CallVariable, CallVariable,
       CallStructure(0, <<3, 4>>), CallStructure(0, <<5, 6>>), CallStructure(1, <<7, 2>>) >>

\* p(X, f(X), Y, f(Y), X) and the fact p(A, A, B, B, B): without occurs check the
\* fact binds X to f(X) and Y to f(Y), then unifies the two cyclic structures
CyclicQuery ==
    << CallVariable, CallStructure(0, <<1>>), CallVariable, CallStructure(0, <<3>>),
       CallStructure(1, <<1, 2, 3, 4, 1>>) >>
CyclicFact ==
    << CallVariable, CallVariable, CallStructure(1, <<1, 1, 2, 2, 2>>) >>

\* running the calls of a script through a QueryBuilder
RECURSIVE QueryCalls(_, _, _)
QueryCalls(script, i, acc) ==
    IF i > Len(script) THEN acc
    ELSE LET c == script[i]
             r == IF c.call = "variable" THEN QueryBuilder_variable(acc.b)
                  ELSE QueryBuilder_structure(acc.b, c.ident,
                         [j \in 1..Len(c.subterms) |-> acc.refs[c.subterms[j]]])
         IN  QueryCalls(script, i + 1, [b |-> r.b, refs |-> Append(acc.refs, r.ref)])

QueryRefs(script) == QueryCalls(script, 1, [b |-> QueryBuilder_default, refs |-> <<>>]).refs

CompileQuery(script) ==
    LET done == QueryCalls(script, 1, [b |-> QueryBuilder_default, refs |-> <<>>])
    IN  QueryBuilder_build(done.b, done.refs[Len(script)])

\* running the calls of a script through a StatementBuilder
RECURSIVE StatementCalls(_, _, _)
StatementCalls(script, i, acc) ==
    IF i > Len(script) THEN acc
    ELSE LET c == script[i]
             r == IF c.call = "variable" THEN StatementBuilder_variable(acc.b)
                  ELSE StatementBuilder_structure(acc.b, c.ident,
                         [j \in 1..Len(c.subterms) |-> acc.refs[c.subterms[j]]])
         IN  StatementCalls(script, i + 1, [b |-> r.b, refs |-> Append(acc.refs, r.ref)])

CompileFact(script) ==
    LET done == StatementCalls(script, 1, [b |-> StatementBuilder_default, refs |-> <<>>])
    IN  StatementBuilder_build(done.b, done.refs[Len(script)])

RECURSIVE AddFacts(_, _, _)
AddFacts(k, scripts, i) ==
    IF i > Len(scripts) THEN k
    ELSE AddFacts(Knowledge_add(k, CompileFact(scripts[i])), scripts, i + 1)

CompileKnowledge(scripts) == AddFacts(Knowledge_new, scripts, 1)

(***************************************************************************)
(* Machine::query, one instruction at a time.                              *)
(*   pc = "start"    query() has been called                               *)
(*        "query"    run(&query.program) is in its loop                    *)
(*        "facts"    at the head of the loop over the consulted facts      *)
(*        "fact"     run(fact) is in its loop                              *)
(*        "done"     query() has returned its QueryResult                  *)
(*        "panicked" an instruction panicked; "hung": it never returns     *)
(***************************************************************************)
NoLast == [op |-> <<"None", 0>>, res |-> "none", before |-> Machine_default,
           phase |-> "start"]

InitWith(inputs) ==
    /\ input \in inputs
    /\ query = CompileQuery(input.q)
    /\ knowledge = CompileKnowledge(input.facts)
    /\ machine = Machine_default
    /\ pc = "start"
    /\ last = NoLast
    /\ failed = FALSE
    /\ result = <<>>
    /\ consulted = 0
    /\ builder = ProgramBuilder_default
    /\ emitted = <<>>
    /\ calls = 0

\* p(X, f(X)): X and f(X), under a root p
SelfPair == << CallVariable, CallStructure(0, <<1>>), CallStructure(1, <<1, 2>>) >>

PairTerms ==
    Scripts(MaxCalls) \cup {ExampleQuery, ExampleFact, PairQuery, PairFact, TwinQuery, TwinFact,
                             CyclicQuery, CyclicFact, SelfPair}

PairInputs ==
    {[q |-> q, facts |-> <<>>] : q \in PairTerms} \cup
    {[q |-> q, facts |-> <<f>>] : q \in PairTerms, f \in PairTerms}

Init == InitWith(PairInputs)

\* Machine::run, entry
run_enter(m) == [m EXCEPT !.preg = 0]

\* Machine::query up to the first run: size the registers, reset the storage
query_enter(m, q, k) ==
    LET regs == Max(x_registers(q.program), Knowledge_x_registers(k))
    IN  run_enter([m EXCEPT !.storage = Storage_reset(m.storage, regs)])

\* Machine::query after the query program: register 0 gets the top-level cell
copy_top_level(m, q) ==
    IF q.top_level # 0
    THEN IF InBounds(m.storage.store, q.top_level)
         THEN StoreReg(m, 0, At(m.storage.store, q.top_level))
         ELSE [m |-> m, res |-> "panic"]
    ELSE [m |-> m, res |-> "true"]

CurrentProgram ==
    IF pc = "query" THEN query.program ELSE knowledge[consulted]

Running == pc \in {"query", "fact"}

After(res) == IF res = "panic" THEN "panicked" ELSE IF res = "hang" THEN "hung" ELSE pc

StartQuery ==
    /\ pc = "start"
    /\ machine' = query_enter(machine, query, knowledge)
    /\ pc' = "query"
    /\ failed' = FALSE
    /\ UNCHANGED <<query, knowledge, input, last, result, consulted, builder, emitted, calls>>

\* the loop of Machine::run: the instruction decoded at preg, and performing it
Fetched == operation(CurrentProgram, machine.preg)
Fetch(kind) == Running /\ Fetched.k = "Some" /\ Fetched.v[1] = kind
Performed == perform_op(machine, Fetched.v)
Observed == [op |-> Fetched.v, res |-> Performed.res, before |-> machine, phase |-> pc]

DoPutStructure ==
    /\ Fetch("PutStructure")
    /\ machine' = Performed.m
    /\ last' = Observed
    /\ failed' = (failed \/ Performed.res = "false")
    /\ pc' = After(Performed.res)
    /\ UNCHANGED <<query, knowledge, input, result, consulted, builder, emitted, calls>>

DoSetVariable ==
    /\ Fetch("SetVariable")
    /\ machine' = Performed.m
    /\ last' = Observed
    /\ failed' = (failed \/ Performed.res = "false")
    /\ pc' = After(Performed.res)
    /\ UNCHANGED <<query, knowledge, input, result, consulted, builder, emitted, calls>>

DoSetValue ==
    /\ Fetch("SetValue")
    /\ machine' = Performed.m
    /\ last' = Observed
    /\ failed' = (failed \/ Performed.res = "false")
    /\ pc' = After(Performed.res)
    /\ UNCHANGED <<query, knowledge, input, result, consulted, builder, emitted, calls>>

DoGetStructure ==
    /\ Fetch("GetStructure")
    /\ machine' = Performed.m
    /\ last' = Observed
    /\ failed' = (failed \/ Performed.res = "false")
    /\ pc' = After(Performed.res)
    /\ UNCHANGED <<query, knowledge, input, result, consulted, builder, emitted, calls>>

DoUnifyVariable ==
    /\ Fetch("UnifyVariable")
    /\ machine' = Performed.m
    /\ last' = Observed
    /\ failed' = (failed \/ Performed.res = "false")
    /\ pc' = After(Performed.res)
    /\ UNCHANGED <<query, knowledge, input, result, consulted, builder, emitted, calls>>

DoUnifyValue ==
    /\ Fetch("UnifyValue")
    /\ machine' = Performed.m
    /\ last' = Observed
    /\ failed' = (failed \/ Performed.res = "false")
    /\ pc' = After(Performed.res)
    /\ UNCHANGED <<query, knowledge, input, result, consulted, builder, emitted, calls>>

EndQueryRun ==
    /\ pc = "query"
    /\ operation(query.program, machine.preg).k = "None"
    /\ LET out == copy_top_level(machine, query) IN
       /\ machine' = out.m
       /\ pc' = IF out.res = "true" THEN "facts" ELSE "panicked"
    /\ UNCHANGED <<query, knowledge, input, last, failed, result, consulted, builder,
                   emitted, calls>>

RunFact ==
    /\ pc = "facts"
    /\ consulted < Len(Consulted(knowledge))
    /\ consulted' = consulted + 1
    /\ machine' = run_enter(machine)
    /\ failed' = FALSE
    /\ pc' = "fact"
    /\ UNCHANGED <<query, knowledge, input, last, result, builder, emitted, calls>>

EndFactRun ==
    /\ pc = "fact"
    /\ operation(knowledge[consulted], machine.preg).k = "None"
    /\ pc' = "facts"
    /\ UNCHANGED <<machine, query, knowledge, input, last, failed, result, consulted,
                   builder, emitted, calls>>

Return ==
    /\ pc = "facts"
    /\ consulted = Len(Consulted(knowledge))
    /\ result' = QueryResult(machine, query)
    /\ pc' = "done"
    /\ UNCHANGED <<machine, query, knowledge, input, last, failed, consulted, builder,
                   emitted, calls>>

Next ==
    \/ StartQuery
    \/ DoPutStructure
    \/ DoSetVariable
    \/ DoSetValue
    \/ DoGetStructure
    \/ DoUnifyVariable
    \/ DoUnifyValue
    \/ EndQueryRun
    \/ RunFact
    \/ EndFactRun
    \/ Return

Spec == Init /\ [][Next]_vars

(***************************************************************************)
(* A query alone: Machine::query with an empty Knowledge.                  *)
(***************************************************************************)
QueryTerms == Scripts(MaxTermCalls) \cup {ExampleQuery}

QueryInputs == {[q |-> q, facts |-> <<>>] : q \in QueryTerms}

InitQuery == InitWith(QueryInputs)

NextQuery ==
    \/ StartQuery
    \/ DoPutStructure
    \/ DoSetVariable
    \/ DoSetValue
    \/ EndQueryRun
    \/ Return

SpecQuery == InitQuery /\ [][NextQuery]_vars

(***************************************************************************)
(* Terms as the caller wrote them, and equality of terms up to a           *)
(* one-to-one renaming of variables.                                       *)
(***************************************************************************)
\* the term built by call i of a script; a variable is named by its call number
RECURSIVE TermOf(_, _)
TermOf(script, i) ==
    LET c == script[i] IN
    IF c.call = "variable" THEN Term_Var(i)
    ELSE IF c.subterms = <<>> THEN Term_Const(c.ident)
    ELSE Term_Struct(c.ident, [j \in 1..Len(c.subterms) |-> TermOf(script, c.subterms[j])])

RootTerm(script) == TermOf(script, Len(script))

RECURSIVE ConcatAll(_, _)
ConcatAll(seqs, i) == IF i > Len(seqs) THEN <<>> ELSE seqs[i] \o ConcatAll(seqs, i + 1)

\* the variable leaves of a term, left to right
RECURSIVE VarsOf(_)
VarsOf(t) ==
    IF t.k = "Var" THEN <<t.id>>
    ELSE ConcatAll([i \in 1..Len(t.args) |-> VarsOf(t.args[i])], 1)

FirstIndex(seq, v) == CHOOSE i \in 1..Len(seq) : seq[i] = v /\ \A j \in 1..(i - 1) : seq[j] # v

\* how many distinct variables occur up to the first occurrence of v
Rank(order, v) == Cardinality({order[j] : j \in 1..FirstIndex(order, v)})

RECURSIVE Rename(_, _)
Rename(t, order) ==
    IF t.k = "Var" THEN Term_Var(Rank(order, t.id))
    ELSE [t EXCEPT !.args = [i \in 1..Len(t.args) |-> Rename(t.args[i], order)]]

\* every variable renamed to the rank of its first occurrence: two terms are equal
\* up to a one-to-one renaming of variables exactly when their canonical forms are equal
Canon(t) == Rename(t, VarsOf(t))

SameTerm(t1, t2) == IsTerm(t1) /\ IsTerm(t2) /\ Canon(t1) = Canon(t2)

\* C2: a query run with an empty Knowledge reifies, from register 0 and from the
\* root handle's register, to the term the caller built, up to a one-to-one
\* renaming of variables (same variable id exactly for the same variable handle).
QueryReifiesToItsTerm ==
    (pc = "done" /\ knowledge = <<>>) =>
        /\ SameTerm(QueryResult_build_term(machine, result, 0), RootTerm(input.q))
        /\ SameTerm(QueryResult_build_term(machine, result, query.top_level),
                    RootTerm(input.q))

\* C2 witness: p(Z, h(Z, W), f(W)) has run and reifies to _2(?v0, _1(?v0, ?v1), _0(?v1))
QueryReifiesToItsTermWitness ==
    /\ pc = "done"
    /\ knowledge = <<>>
    /\ input.q = ExampleQuery
    /\ Canon(QueryResult_build_term(machine, result, 0)) =
         Term_Struct(2, << Term_Var(1),
                           Term_Struct(1, <<Term_Var(1), Term_Var(2)>>),
                           Term_Struct(0, <<Term_Var(2)>>) >>)

(***************************************************************************)
(* Round trip: a term compiled as a query and the identical term compiled  *)
(* as the only fact.                                                       *)
(***************************************************************************)
RoundTripInputs == {[q |-> t, facts |-> <<t>>] : t \in QueryTerms}

InitRoundTrip == InitWith(RoundTripInputs)

SpecRoundTrip == InitRoundTrip /\ [][Next]_vars

\* C3: with the same term as query and as only fact, the run neither panics nor
\* hangs, every instruction of the fact program returns true (and the unification
\* made by each UnifyValue in read mode succeeds), and register 0 still reifies to
\* the term up to a one-to-one renaming of variables.
RoundTripSucceeds ==
    /\ pc \notin {"panicked", "hung"}
    /\ (consulted = 1 => ~failed)
    /\ (consulted = 1 /\ last.phase = "fact" /\ last.op[1] = "UnifyValue"
          /\ last.before.unification_state = "Read" =>
            unify(last.before.storage.store, XReg(last.op), last.before.sreg).res = "true")
    /\ (pc = "done" =>
          SameTerm(QueryResult_build_term(machine, result, 0), RootTerm(input.q)))

\* C3 witness: p(Z, h(Z, W), f(W)) against itself has run its fact program, whose
\* last instruction was performed in read mode, and the query has returned
RoundTripSucceedsWitness ==
    /\ pc = "done"
    /\ input.q = ExampleQuery
    /\ input.facts = <<ExampleQuery>>
    /\ consulted = 1
    /\ last.phase = "fact"
    /\ last.res = "true"
    /\ machine.unification_state = "Read"

(***************************************************************************)
(* Claims about single instructions, under Spec.  `last` holds the         *)
(* instruction just performed and the machine before it; it describes the  *)
(* current machine as long as the run it belongs to is in its loop.        *)
(***************************************************************************)
JustPerformed(kind) == Running /\ last.phase = pc /\ last.res # "none" /\ last.op[1] = kind

SameCore(m1, m2) ==
    /\ m1.storage = m2.storage
    /\ m1.sreg = m2.sreg
    /\ m1.unification_state = m2.unification_state

\* C4: once an instruction of the program being run has returned false, no later
\* instruction of that program changes the store, sreg or the mode.
NothingRunsAfterFailure ==
    [][(Running /\ failed /\ pc' = pc) => SameCore(machine', machine)]_vars

\* C5: UnifyValue in read mode returns true exactly when Storage::unify(x, sreg)
\* returned true.
UnifyValueReportsUnify ==
    (JustPerformed("UnifyValue") /\ last.before.unification_state = "Read"
        /\ Returned(last.res)) =>
      (last.res = "true" <=>
         unify(last.before.storage.store, XReg(last.op), last.before.sreg).res = "true")

\* GetStructure(id, n, x) met a structure whose functor cell differs from Funct(id, n)
Mismatch(m, op) ==
    LET item == deref(m.storage.store, XReg(op)) IN
    /\ item.k = "Some"
    /\ IsStruct(item.v)
    /\ InBounds(m.storage.store, item.v[2])
    /\ IsFunct(At(m.storage.store, item.v[2]))
    /\ At(m.storage.store, item.v[2]) # Funct(op[2], op[3])

\* C6: GetStructure on a structure with another identifier or another arity
\* returns false and leaves every store cell, the store length, sreg and the mode
\* as they were.
GetStructureMismatchFails ==
    (JustPerformed("GetStructure") /\ Mismatch(last.before, last.op)) =>
        /\ last.res = "false"
        /\ SameCore(machine, last.before)

\* C6 witness: a GetStructure has just met the same identifier with another arity
GetStructureMismatchFailsWitness ==
    /\ JustPerformed("GetStructure")
    /\ Mismatch(last.before, last.op)
    /\ LET item == deref(last.before.storage.store, XReg(last.op))
           f == At(last.before.storage.store, item.v[2])
       IN  f[2] = last.op[2] /\ f[3] # last.op[3]
    /\ last.res = "false"

\* C8: the storage is reset to max(query.x_registers, knowledge.x_registers)
\* registers, and the register operand of every instruction performed is below it.
RegisterOperandsBelowRegs ==
    /\ (pc # "start" =>
          machine.storage.regs =
            Max(x_registers(query.program), Knowledge_x_registers(knowledge)))
    /\ (last.res # "none" => XReg(last.op) < machine.storage.regs)

(***************************************************************************)
(* ProgramBuilder driven directly: any sequence of the six emit methods,   *)
(* then build().                                                           *)
(***************************************************************************)
Registers == 0..MaxReg

InitBuilder ==
    /\ builder = ProgramBuilder_default
    /\ emitted = <<>>
    /\ pc = "building"
    /\ input = [q |-> <<>>, facts |-> <<>>]
    /\ query = QueryBuilder_build(QueryBuilder_default, 0)
    /\ knowledge = Knowledge_new
    /\ machine = Machine_default
    /\ last = NoLast
    /\ failed = FALSE
    /\ result = <<>>
    /\ consulted = 0
    /\ calls = 0

CanEmit == pc = "building" /\ Len(emitted) < MaxEmit

NotBuilder == <<machine, pc, query, knowledge, input, last, failed, result, consulted, calls>>

EmitPutStructure ==
    /\ CanEmit
    /\ \E ident \in Idents, arity \in Arities, xreg \in Registers :
        /\ builder' = ProgramBuilder_put_structure(builder, ident, arity, xreg)
        /\ emitted' = Append(emitted, PutStructure(ident, arity, xreg))
    /\ UNCHANGED NotBuilder

EmitSetVariable ==
    /\ CanEmit
    /\ \E xreg \in Registers :
        /\ builder' = ProgramBuilder_set_variable(builder, xreg)
        /\ emitted' = Append(emitted, SetVariable(xreg))
    /\ UNCHANGED NotBuilder

EmitSetValue ==
    /\ CanEmit
    /\ \E xreg \in Registers :
        /\ builder' = ProgramBuilder_set_value(builder, xreg)
        /\ emitted' = Append(emitted, SetValue(xreg))
    /\ UNCHANGED NotBuilder

EmitGetStructure ==
    /\ CanEmit
    /\ \E ident \in Idents, arity \in Arities, xreg \in Registers :
        /\ builder' = ProgramBuilder_get_structure(builder, ident, arity, xreg)
        /\ emitted' = Append(emitted, GetStructure(ident, arity, xreg))
    /\ UNCHANGED NotBuilder

EmitUnifyVariable ==
    /\ CanEmit
    /\ \E xreg \in Registers :
        /\ builder' = ProgramBuilder_unify_variable(builder, xreg)
        /\ emitted' = Append(emitted, UnifyVariable(xreg))
    /\ UNCHANGED NotBuilder

EmitUnifyValue ==
    /\ CanEmit
    /\ \E xreg \in Registers :
        /\ builder' = ProgramBuilder_unify_value(builder, xreg)
        /\ emitted' = Append(emitted, UnifyValue(xreg))
    /\ UNCHANGED NotBuilder

\* ProgramBuilder::build consumes the builder; the Program is kept in query.program
BuildProgram ==
    /\ pc = "building"
    /\ query' = [query EXCEPT !.program = ProgramBuilder_build(builder)]
    /\ pc' = "built"
    /\ UNCHANGED <<machine, knowledge, input, last, failed, result, consulted, builder,
                   emitted, calls>>

NextBuilder ==
    \/ EmitPutStructure
    \/ EmitSetVariable
    \/ EmitSetValue
    \/ EmitGetStructure
    \/ EmitUnifyVariable
    \/ EmitUnifyValue
    \/ BuildProgram

SpecBuilder == InitBuilder /\ [][NextBuilder]_vars

RECURSIVE MaxOperandPlusOne(_, _)
MaxOperandPlusOne(ops, i) ==
    IF i > Len(ops) THEN 0 ELSE Max(XReg(ops[i]) + 1, MaxOperandPlusOne(ops, i + 1))

\* C7: the x_registers of a built Program is one more than the largest register
\* operand of the instructions emitted, of whatever kind, and 0 for no instruction.
XRegistersCoverEveryOperand ==
    pc = "built" => x_registers(query.program) = MaxOperandPlusOne(emitted, 1)

(***************************************************************************)
(* Storage driven directly through its own operations, from Storage::new.  *)
(* `last` records the operation just made and the machine before it.       *)
(***************************************************************************)
InitStorage ==
    /\ machine = Machine_default
    /\ pc = "storage"
    /\ last = NoLast
    /\ input = [q |-> <<>>, facts |-> <<>>]
    /\ query = QueryBuilder_build(QueryBuilder_default, 0)
    /\ knowledge = Knowledge_new
    /\ failed = FALSE
    /\ result = <<>>
    /\ consulted = 0
    /\ builder = ProgramBuilder_default
    /\ emitted = <<>>
    /\ calls = 0

NotStorage == <<pc, query, knowledge, input, failed, result, consulted, builder, emitted,
                calls>>

Did(op) == [op |-> op, res |-> "true", before |-> machine, phase |-> "storage"]

\* the cells pushed verbatim: references and structure pointers to an address in
\* the store or to the next one
PushableCells(store) == {Ref(a) : a \in 0..Len(store)} \cup {Struct(a) : a \in 0..Len(store)}

StorageReset ==
    /\ pc = "storage"
    /\ \E regs \in 0..MaxStore :
        /\ machine' = [machine EXCEPT !.storage = Storage_reset(machine.storage, regs)]
        /\ last' = Did(<<"reset", regs>>)
    /\ UNCHANGED NotStorage

StoragePushVar ==
    /\ pc = "storage"
    /\ Len(machine.storage.store) < MaxStore
    /\ machine' = WithStore(machine, push_var(machine.storage.store).store)
    /\ last' = Did(<<"push_var", 0>>)
    /\ UNCHANGED NotStorage

StoragePushCell ==
    /\ pc = "storage"
    /\ Len(machine.storage.store) < MaxStore
    /\ \E cell \in PushableCells(machine.storage.store) :
        /\ machine' = WithStore(machine, push_cell(machine.storage.store, cell).store)
        /\ last' = Did(<<"push_cell", cell>>)
    /\ UNCHANGED NotStorage

StoragePushStruct ==
    /\ pc = "storage"
    /\ Len(machine.storage.store) + 1 < MaxStore
    /\ \E ident \in Idents, arity \in Arities :
        /\ machine' = WithStore(machine,
                                push_struct(machine.storage.store, ident, arity).store)
        /\ last' = Did(<<"push_struct", ident, arity>>)
    /\ UNCHANGED NotStorage

StorageBind ==
    /\ pc = "storage"
    /\ \E a1, a2 \in 0..(Len(machine.storage.store) - 1) :
        /\ machine' = WithStore(machine, bind(machine.storage.store, a1, a2))
        /\ last' = Did(<<"bind", a1, a2>>)
    /\ UNCHANGED NotStorage

NextStorage ==
    \/ StorageReset
    \/ StoragePushVar
    \/ StoragePushCell
    \/ StoragePushStruct
    \/ StorageBind

SpecStorage == InitStorage /\ [][NextStorage]_vars

\* C10: after reset(regs) the store has exactly regs cells, the register count is
\* regs, and every register cell is the default cell, whatever the store held.
ResetDefaultsEveryRegister ==
    (pc = "storage" /\ last.op[1] = "reset") =>
        /\ Len(machine.storage.store) = last.op[2]
        /\ machine.storage.regs = last.op[2]
        /\ \A a \in 0..(last.op[2] - 1) : At(machine.storage.store, a) = Cell_default

(***************************************************************************)
(* Machine::query as one step, called repeatedly on the same Machine.      *)
(***************************************************************************)
\* Machine::run: [m, res], res "true" when the loop ended on "no instruction"
RECURSIVE run_loop(_, _)
run_next(out, program) == IF Returned(out.res) THEN run_loop(out.m, program) ELSE out

run_fetch(m, program, op) ==
    IF op.k = "None" THEN [m |-> m, res |-> "true"]
    ELSE run_next(perform_op(m, op.v), program)

run_loop(m, program) == run_fetch(m, program, operation(program, m.preg))

Machine_run(m, program) == run_loop(run_enter(m), program)

\* the for loop over knowledge.programs().take(1)
RECURSIVE run_facts(_, _, _)
run_facts_next(out, facts, i) ==
    IF out.res = "true" THEN run_facts(out.m, facts, i + 1) ELSE out

run_facts(m, facts, i) ==
    IF i > Len(facts) THEN [m |-> m, res |-> "true"]
    ELSE run_facts_next(Machine_run(m, facts[i]), facts, i)

query_copy(out, q) == IF out.res = "true" THEN copy_top_level(out.m, q) ELSE out

query_facts(out, k) ==
    IF out.res = "true" THEN run_facts(out.m, Consulted(k), 1) ELSE out

query_return(out, q) ==
    [m |-> out.m, res |-> out.res,
     result |-> IF out.res = "true" THEN QueryResult(out.m, q) ELSE <<>>]

\* Machine::query: [m, res, result]; result is the register snapshot when it returns
Machine_query(m, q, k) ==
    query_return(
        query_facts(query_copy(run_loop(query_enter(m, q, k), q.program), q), k), q)

InitSession ==
    /\ machine = Machine_default
    /\ pc = "idle"
    /\ last = NoLast
    /\ input = [q |-> <<>>, facts |-> <<>>]
    /\ query = QueryBuilder_build(QueryBuilder_default, 0)
    /\ knowledge = Knowledge_new
    /\ failed = FALSE
    /\ result = <<>>
    /\ consulted = 0
    /\ builder = ProgramBuilder_default
    /\ emitted = <<>>
    /\ calls = 0

\* the queries of a session: the enumerated terms, alone or against one fact
SessionInputs ==
    {[q |-> q, facts |-> <<>>] : q \in Scripts(MaxCalls)} \cup
    {[q |-> q, facts |-> <<f>>] : q \in Scripts(MaxCalls), f \in Scripts(MaxCalls)}

\* the caller's state after Machine::query(q, k) gave `out`
Called(inp, q, k, out) ==
    /\ input' = inp
    /\ query' = q
    /\ knowledge' = k
    /\ machine' = out.m
    /\ result' = out.result
    /\ last' = [op |-> <<"query", 0>>, res |-> out.res, before |-> machine,
                phase |-> "session"]
    /\ pc' = IF out.res = "true" THEN "done"
             ELSE IF out.res = "panic" THEN "panicked" ELSE "hung"

Calling(inp, q, k) == Called(inp, q, k, Machine_query(machine, q, k))

CallQuery ==
    /\ pc \in {"idle", "done"}
    /\ calls < MaxQueries
    /\ \E inp \in SessionInputs :
          Calling(inp, CompileQuery(inp.q), CompileKnowledge(inp.facts))
    /\ calls' = calls + 1
    /\ UNCHANGED <<failed, consulted, builder, emitted>>

NextSession == CallQuery

SpecSession == InitSession /\ [][NextSession]_vars

\* two outcomes of Machine::query agree: same outcome, same register snapshot, and
\* every register of the snapshot reifies to the same term
SameAnswer(got, fresh) ==
    /\ got.res = fresh.res
    /\ got.result = fresh.result
    /\ \A i \in 1..Len(got.result) :
          build_term(got.m, got.result[i]) = build_term(fresh.m, fresh.result[i])

\* C9: the register snapshot a query returns and the terms reified from it are
\* those the same query returns on a fresh Machine, whatever queries the machine
\* has executed before.
NoCrossQueryPersistence ==
    calls >= 1 =>
        SameAnswer([m |-> machine, res |-> last.res, result |-> result],
                   Machine_query(Machine_default, query, knowledge))

(***************************************************************************)
(* The most general unifier of two terms, by Robinson's algorithm with the *)
(* occurs check: the reference the machine's answers are compared with.    *)
(* A substitution is a function from variable names to terms.              *)
(***************************************************************************)
\* the variables of a term renamed by an offset, to keep two terms apart
RECURSIVE RenameApart(_, _)
RenameApart(t, offset) ==
    IF t.k = "Var" THEN Term_Var(t.id + offset)
    ELSE [t EXCEPT !.args = [i \in 1..Len(t.args) |-> RenameApart(t.args[i], offset)]]

RECURSIVE Walk(_, _)
Walk(t, s) == IF t.k = "Var" /\ t.id \in DOMAIN s THEN Walk(s[t.id], s) ELSE t

RECURSIVE OccursIn(_, _, _)
OccursIn(v, t, s) ==
    LET w == Walk(t, s) IN
    IF w.k = "Var" THEN w.id = v
    ELSE \E i \in 1..Len(w.args) : OccursIn(v, w.args[i], s)

RECURSIVE Solve(_, _)
Solve(pairs, s) ==
    IF pairs = <<>> THEN [ok |-> TRUE, s |-> s]
    ELSE LET a == Walk(pairs[1][1], s)
             b == Walk(pairs[1][2], s)
             rest == Tail(pairs)
         IN  IF a.k = "Var" /\ b.k = "Var" /\ a.id = b.id THEN Solve(rest, s)
             ELSE IF a.k = "Var"
             THEN IF OccursIn(a.id, b, s) THEN [ok |-> FALSE, s |-> s]
                  ELSE Solve(rest, (a.id :> b) @@ s)
             ELSE IF b.k = "Var"
             THEN IF OccursIn(b.id, a, s) THEN [ok |-> FALSE, s |-> s]
                  ELSE Solve(rest, (b.id :> a) @@ s)
             ELSE IF a.id # b.id \/ Len(a.args) # Len(b.args)
             THEN [ok |-> FALSE, s |-> s]
             ELSE Solve([i \in 1..Len(a.args) |-> <<a.args[i], b.args[i]>>] \o rest, s)

\* the image of a term under a substitution
RECURSIVE Resolve(_, _)
Resolve(t, s) ==
    LET w == Walk(t, s) IN
    IF w.k = "Var" THEN w
    ELSE [w EXCEPT !.args = [i \in 1..Len(w.args) |-> Resolve(w.args[i], s)]]

\* the query term against the fact term, the fact's variables renamed apart
Mgu(q, f) == Solve(<< <<RootTerm(q), RenameApart(RootTerm(f), Len(q))>> >>, <<>>)

\* the variable() calls of a script, in call order
VariableCalls(script) ==
    SelectSeq([i \in 1..Len(script) |-> i], LAMBDA i : script[i].call = "variable")

\* the terms reified from the registers of the query's variables, as one tuple
ReifiedAnswer ==
    LET vs == VariableCalls(input.q)
        refs == QueryRefs(input.q)
    IN  Term_Struct(0, [j \in 1..Len(vs) |->
                          QueryResult_build_term(machine, result, refs[vs[j]])])

\* the images of the query's variables under the most general unifier, as one tuple
MguAnswer ==
    LET vs == VariableCalls(input.q)
        s == Mgu(input.q, input.facts[1]).s
    IN  Term_Struct(0, [j \in 1..Len(vs) |-> Resolve(Term_Var(vs[j]), s)])

Unifiable == Len(input.facts) = 1 /\ Mgu(input.q, input.facts[1]).ok

\* C1: when the query term and the only fact term are unifiable, Machine::query
\* returns and the query's variables reify to their images under the most general
\* unifier of the two terms, up to a one-to-one renaming of variables.
QueryAnswersAreTheMgu ==
    (pc \in {"done", "panicked", "hung"} /\ Unifiable) =>
        /\ pc = "done"
        /\ \A j \in 1..Len(ReifiedAnswer.args) : IsTerm(ReifiedAnswer.args[j])
        /\ SameTerm(ReifiedAnswer, MguAnswer)

(***************************************************************************)
(* The store invariants of the specification, as predicates of a store.    *)
(***************************************************************************)
\* I1: every Struct(a) points at a functor cell whose argument slots are in the store
I1(store) ==
    \A i \in 1..Len(store) :
        IsStruct(store[i]) =>
            LET a == store[i][2] IN
            /\ InBounds(store, a)
            /\ IsFunct(At(store, a))
            /\ InBounds(store, a + At(store, a)[3])

\* C11: when Machine::query has returned, every Struct(a) cell of the store points
\* at a Funct(id, n) cell and the addresses a+1 .. a+n are inside the store.
StructsPointAtFunctors == pc = "done" => I1(machine.storage.store)

\* I4: dereferencing any address of the store comes to an end
I4(store) == \A a \in 0..(Len(store) - 1) : deref_idx(store, a).k # "Hang"

\* C12: in every state of a Machine::query call the chain of Ref links from any
\* address of the store ends (at a cell that is no Ref, at a self-referencing Ref,
\* or outside the store): it never comes back to an address it has left.
RefChainsEnd == I4(machine.storage.store)

\* C13: Machine::query terminates: no instruction runs into a loop that never ends
\* (a dereference or a unification), and every instruction performed leaves preg
\* larger than it was, so the run reaches the end of its program.
QueryTerminates ==
    /\ pc # "hung"
    /\ (JustPerformed("PutStructure") \/ JustPerformed("SetVariable")
          \/ JustPerformed("SetValue") \/ JustPerformed("GetStructure")
          \/ JustPerformed("UnifyVariable") \/ JustPerformed("UnifyValue")) =>
         (Returned(last.res) => machine.preg > last.before.preg)

(***************************************************************************)
(* Claims about Storage operations, under SpecStorage.                     *)
(***************************************************************************)
SelfRef(store, a) == At(store, a) = Ref(a)

Changed(before, after) ==
    {a \in 0..(Len(before) - 1) : ~InBounds(after, a) \/ At(after, a) # At(before, a)}

\* C14: bind(a1, a2) keeps the length of the store and changes at most one cell; a
\* cell it changes was a self-referencing Ref before the call; with no
\* self-referencing Ref at a1 or a2 nothing changes; with one at both, a1 becomes
\* Ref(a2).
BindOverwritesOnlyFreeVariables ==
    (pc = "storage" /\ last.op[1] = "bind") =>
        LET before == last.before.storage.store
            after == machine.storage.store
            a1 == last.op[2]
            a2 == last.op[3]
        IN  /\ Len(after) = Len(before)
            /\ Cardinality(Changed(before, after)) <= 1
            /\ \A a \in Changed(before, after) : SelfRef(before, a)
            /\ (~SelfRef(before, a1) /\ ~SelfRef(before, a2)) => after = before
            /\ (SelfRef(before, a1) /\ SelfRef(before, a2)) =>
                  after = SetAt(before, a1, Ref(a2))

\* C14 witness: bind has just bound one of two distinct free variables to the other
BindOverwritesOnlyFreeVariablesWitness ==
    /\ pc = "storage"
    /\ last.op[1] = "bind"
    /\ last.op[2] # last.op[3]
    /\ SelfRef(last.before.storage.store, last.op[2])
    /\ SelfRef(last.before.storage.store, last.op[3])
    /\ machine.storage.store # last.before.storage.store

(***************************************************************************)
(* Storage::unify called on the store a query program has built: the       *)
(* query runs with an empty Knowledge, then unify(a1, a2) is called on     *)
(* in-bounds addresses, as Machine::unify_value calls it in read mode.     *)
(***************************************************************************)
\* f(a) and f(b), two ground structures that differ, under a root p
GroundPair ==
    << CallStructure(0, <<>>), CallStructure(1, <<>>), CallStructure(0, <<1>>),
       CallStructure(0, <<2>>), CallStructure(1, <<3, 4>>) >>

\* f(a) built twice, under a root p
EqualGroundPair ==
    << CallStructure(0, <<>>), CallStructure(0, <<>>), CallStructure(0, <<1>>),
       CallStructure(0, <<2>>), CallStructure(1, <<3, 4>>) >>

\* h(X, a) and h(b, X), under a root p
MixedPair ==
    << CallVariable, CallStructure(0, <<>>), CallStructure(1, <<>>),
       CallStructure(1, <<1, 2>>), CallStructure(1, <<3, 1>>), CallStructure(0, <<4, 5>>) >>

UnifyTerms ==
    Scripts(MaxCalls) \cup {ExampleQuery, PairQuery, GroundPair, EqualGroundPair, MixedPair,
                             SelfPair}

UnifyInputs == {[q |-> q, facts |-> <<>>] : q \in UnifyTerms}

InitUnify == InitWith(UnifyInputs)

StorageUnify ==
    /\ pc \in {"done", "unified"}
    /\ calls < MaxUnify
    /\ \E a1, a2 \in 0..(Len(machine.storage.store) - 1) :
        LET out == unify(machine.storage.store, a1, a2) IN
        /\ machine' = WithStore(machine, out.store)
        /\ last' = [op |-> <<"unify", a1, a2>>, res |-> out.res, before |-> machine,
                    phase |-> "unified"]
    /\ pc' = "unified"
    /\ calls' = calls + 1
    /\ UNCHANGED <<query, knowledge, input, failed, result, consulted, builder, emitted>>

NextUnify ==
    \/ StartQuery
    \/ DoPutStructure
    \/ DoSetVariable
    \/ DoSetValue
    \/ EndQueryRun
    \/ Return
    \/ StorageUnify

SpecUnify == InitUnify /\ [][NextUnify]_vars

JustUnified == pc = "unified" /\ last.op[1] = "unify"

\* the store unify was called on satisfies I1 and I4 (I2 defines a free variable,
\* I3 is a property of bind)
WellFormedBefore == I1(last.before.storage.store) /\ I4(last.before.storage.store)

\* the terms at a1 and a2 are equal down to `depth` levels: the same cell, or two
\* structures of the same functor identifier and arity with equal arguments; two
\* different free variables are not equal
RECURSIVE EqualTerms(_, _, _, _)
EqualTerms(store, a1, a2, depth) ==
    LET d1 == deref_idx(store, a1)
        d2 == deref_idx(store, a2)
    IN  /\ d1.k = "Some"
        /\ d2.k = "Some"
        /\ \/ d1.v = d2.v
           \/ LET c1 == At(store, d1.v)
                  c2 == At(store, d2.v)
              IN  /\ IsStruct(c1)
                  /\ IsStruct(c2)
                  /\ get_funct(store, c1[2]).k = "Some"
                  /\ get_funct(store, c2[2]).k = "Some"
                  /\ At(store, c1[2]) = At(store, c2[2])
                  /\ \A i \in 1..At(store, c1[2])[3] :
                        depth = 0 \/ EqualTerms(store, c1[2] + i, c2[2] + i, depth - 1)

\* C15 as stated: after unify(a1, a2) returned true on a store satisfying I1 and
\* I4, deref(a1) and deref(a2) are the same cell and the terms at a1 and a2 are
\* recursively equal.
UnifiedCellsAreEqual ==
    (JustUnified /\ last.res = "true" /\ WellFormedBefore) =>
        /\ deref(machine.storage.store, last.op[2]) = deref(machine.storage.store, last.op[3])
        /\ EqualTerms(machine.storage.store, last.op[2], last.op[3], MaxDepth)

\* C15: after unify(a1, a2) returned true on a store satisfying I1 and I4, the
\* terms at a1 and a2 are recursively equal (same functor identifier and arity at
\* every corresponding position, the same free variable at every corresponding
\* leaf), and deref(a1) and deref(a2) are the same cell whenever one of them is a
\* free variable; two structures may be held by Struct cells that point at
\* different functor cells.
UnifiedTermsAreEqual ==
    (JustUnified /\ last.res = "true" /\ WellFormedBefore) =>
        LET store == machine.storage.store
            c1 == deref(store, last.op[2])
            c2 == deref(store, last.op[3])
        IN  /\ EqualTerms(store, last.op[2], last.op[3], MaxDepth)
            /\ c1.k = "Some"
            /\ c2.k = "Some"
            /\ (IsRef(c1.v) \/ IsRef(c2.v)) => c1 = c2

\* C15 witness: unify returned true on two different addresses of a well-formed
\* store, bound a variable on the way, and both addresses now hold a structure
UnifiedTermsAreEqualWitness ==
    /\ JustUnified
    /\ last.res = "true"
    /\ WellFormedBefore
    /\ last.op[2] # last.op[3]
    /\ machine.storage.store # last.before.storage.store
    /\ IsStruct(deref(machine.storage.store, last.op[2]).v)

\* the term at address a is ground down to `depth` levels: a structure whose
\* arguments are ground, with no variable anywhere
RECURSIVE Ground(_, _, _)
Ground(store, a, depth) ==
    LET d == deref_idx(store, a) IN
    /\ depth > 0
    /\ d.k = "Some"
    /\ IsStruct(At(store, d.v))
    /\ LET f == get_funct(store, At(store, d.v)[2]) IN
       /\ f.k = "Some"
       /\ \A i \in 1..f.v[3] : Ground(store, At(store, d.v)[2] + i, depth - 1)

\* C16: unify(a1, a2) on two ground structures that differ returns false and
\* leaves every cell of the store as it was.
GroundMismatchFailsUnchanged ==
    LET before == last.before.storage.store IN
    (/\ JustUnified
     /\ Ground(before, last.op[2], MaxDepth)
     /\ Ground(before, last.op[3], MaxDepth)
     /\ ~EqualTerms(before, last.op[2], last.op[3], MaxDepth)) =>
        /\ last.res = "false"
        /\ machine.storage.store = before

\* C16 witness: unify was called on f(a) and f(b), the registers 3 and 4 of the
\* query p(f(a), f(b)), which differ in their argument only
GroundMismatchFailsUnchangedWitness ==
    /\ JustUnified
    /\ input.q = GroundPair
    /\ last.op = <<"unify", 3, 4>>
    /\ Ground(last.before.storage.store, 3, MaxDepth)
    /\ Ground(last.before.storage.store, 4, MaxDepth)
    /\ ~EqualTerms(last.before.storage.store, 3, 4, MaxDepth)
    /\ last.res = "false"

JustBound == pc = "storage" /\ last.op[1] = "bind"

\* after the bind just made, both addresses dereference to one and the same cell
BoundToSameTerminal ==
    LET after == machine.storage.store
        t1 == deref_idx(after, last.op[2])
        t2 == deref_idx(after, last.op[3])
    IN  t1.k = "Some" /\ t2.k = "Some" /\ t1.v = t2.v
        /\ deref(after, last.op[2]) = deref(after, last.op[3])

\* C17 as stated: for all in-bounds addresses a1, a2 of a store satisfying I1 and
\* I4, after bind(a1, a2) dereferencing a1 and a2 terminates in the same cell.
BindAlwaysJoins == (JustBound /\ WellFormedBefore) => BoundToSameTerminal

\* C17: for in-bounds addresses a1, a2 of a store satisfying I1 and I4 that
\* dereference to two different addresses, at least one of a1, a2 being a free
\* variable, after bind(a1, a2) dereferencing a1 and a2 terminates in the same
\* cell; for two different free variables k1, k2, deref_idx(k1) = k2 and
\* deref_idx(k2) = k2 after bind(k1, k2).
BindJoinsFreeVariable ==
    LET before == last.before.storage.store
        after == machine.storage.store
        a1 == last.op[2]
        a2 == last.op[3]
    IN  (JustBound /\ WellFormedBefore) =>
          /\ (/\ SelfRef(before, a1) \/ SelfRef(before, a2)
              /\ deref_idx(before, a1).k = "Some"
              /\ deref_idx(before, a2).k = "Some"
              /\ deref_idx(before, a1) # deref_idx(before, a2)) => BoundToSameTerminal
          /\ (SelfRef(before, a1) /\ SelfRef(before, a2) /\ a1 # a2) =>
                deref_idx(after, a1) = Some(a2) /\ deref_idx(after, a2) = Some(a2)

\* C17 witness: bind was called on two different free variables of a well-formed
\* store and the first now dereferences to the second
BindJoinsFreeVariableWitness ==
    /\ JustBound
    /\ WellFormedBefore
    /\ last.op[2] # last.op[3]
    /\ SelfRef(last.before.storage.store, last.op[2])
    /\ SelfRef(last.before.storage.store, last.op[3])
    /\ deref_idx(machine.storage.store, last.op[2]) = Some(last.op[3])

\* the addresses deref_idx is asked about: every address of the store and the
\* first one past its end
Askable(store) == 0..Len(store)

\* C18: whenever deref_idx(x) returns an address t, deref_idx(t) returns t again,
\* and the cell at t is either no Ref or a Ref to its own address.
DerefIdxIsIdempotent ==
    LET store == machine.storage.store IN
    \A x \in Askable(store) :
        LET t == deref_idx(store, x) IN
        t.k = "Some" =>
            /\ InBounds(store, t.v)
            /\ deref_idx(store, t.v) = t
            /\ ~IsRef(At(store, t.v)) \/ SelfRef(store, t.v)

\* C18 witness: a store where deref_idx follows two links, from address 2 over
\* address 1 to the free variable at address 0
DerefIdxIsIdempotentWitness ==
    LET store == machine.storage.store IN
    /\ pc = "storage"
    /\ Len(store) = 3
    /\ At(store, 2) = Ref(1)
    /\ At(store, 1) = Ref(0)
    /\ deref_idx(store, 2) = Some(0)
    /\ SelfRef(store, 0)

\* the cells below address k are those of the store before
SameBelow(before, after) ==
    Len(after) >= Len(before) /\ SubSeq(after, 1, Len(before)) = before

\* C19: with k the store length before the call, push_var appends exactly Ref(k)
\* at address k (so deref_idx(k) = k) and returns it, push_cell(c) appends exactly
\* c at address k and returns it, push_struct(id, n) appends exactly Struct(k+1)
\* at k and Funct(id, n) at k+1 and returns Struct(k+1); no cell below k changes.
PushesAppendInCallOrder ==
    LET before == last.before.storage.store
        after == machine.storage.store
        k == Len(before)
    IN  /\ (pc = "storage" /\ last.op[1] = "push_var") =>
              /\ after = Append(before, Ref(k))
              /\ SameBelow(before, after)
              /\ deref_idx(after, k) = Some(k)
              /\ push_var(before).cell = Ref(k)
        /\ (pc = "storage" /\ last.op[1] = "push_cell") =>
              /\ after = Append(before, last.op[2])
              /\ SameBelow(before, after)
              /\ push_cell(before, last.op[2]).cell = last.op[2]
        /\ (pc = "storage" /\ last.op[1] = "push_struct") =>
              /\ Len(after) = k + 2
              /\ At(after, k) = Struct(k + 1)
              /\ At(after, k + 1) = Funct(last.op[2], last.op[3])
              /\ SameBelow(before, after)
              /\ push_struct(before, last.op[2], last.op[3]).cell = Struct(k + 1)

\* C19 witness: a structure was pushed onto a store that already held a cell
PushesAppendInCallOrderWitness ==
    /\ pc = "storage"
    /\ last.op[1] = "push_struct"
    /\ Len(last.before.storage.store) = 1
    /\ machine.storage.store[2] = Struct(2)
    /\ machine.storage.store[1] = last.before.storage.store[1]

(***************************************************************************)
(* Program::operation asked for the instruction at any index of a built    *)
(* Program, on an instruction boundary or not, at the end or past it.      *)
(***************************************************************************)
DecodeAt ==
    /\ pc = "built"
    /\ \E index \in 0..(Len(query.program.program) + 1) :
        /\ last' = [op |-> <<"operation", index>>,
                    res |-> operation(query.program, index).k,
                    before |-> [machine EXCEPT !.preg = index], phase |-> "decoded"]
        /\ result' = <<operation(query.program, index)>>
    /\ pc' = "decoded"
    /\ UNCHANGED <<machine, query, knowledge, input, failed, consulted, builder, emitted,
                   calls>>

NextDecode ==
    \/ EmitPutStructure
    \/ EmitSetVariable
    \/ EmitSetValue
    \/ EmitGetStructure
    \/ EmitUnifyVariable
    \/ EmitUnifyValue
    \/ BuildProgram
    \/ DecodeAt

SpecDecode == InitBuilder /\ [][NextDecode]_vars

\* the operand words of the instruction whose opcode word is `word`
OperandWords(word) ==
    IF word \in {OpCode_PutStructure, OpCode_GetStructure} THEN 3
    ELSE IF word \in {OpCode_SetVariable, OpCode_SetValue, OpCode_UnifyVariable,
                      OpCode_UnifyValue} THEN 1
    ELSE 0

PastEnd(words, i) == i >= Len(words)

\* the opcode word at i is not followed by all of its operand words
Truncated(words, i) == i < Len(words) /\ i + OperandWords(Word(words, i)) >= Len(words)

RECURSIVE SumAdvance(_, _)
SumAdvance(ops, n) == IF n = 0 THEN 0 ELSE SumAdvance(ops, n - 1) + advance(ops[n])

\* the opcode word of an instruction
OpCodeOf(op) ==
    CASE op[1] = "PutStructure" -> 0
      [] op[1] = "SetVariable" -> 1
      [] op[1] = "SetValue" -> 2
      [] op[1] = "GetStructure" -> 3
      [] op[1] = "UnifyVariable" -> 4
      [] op[1] = "UnifyValue" -> 5

\* decoding from position p, stepping by advance(op), until no instruction
RECURSIVE DecodeFrom(_, _)
DecodeFrom(program, p) ==
    LET op == operation(program, p) IN
    IF op.k = "None" THEN <<>>
    ELSE <<op.v>> \o DecodeFrom(program, p + advance(op.v))

\* C21: the word buffer of a built Program is as long as the sum of advance(op)
\* over the emitted instructions, holds at the start of each instruction its opcode
\* word (0..5 in the order PutStructure, SetVariable, SetValue, GetStructure,
\* UnifyVariable, UnifyValue), and decodes from position 0, stepping by
\* advance(op), to exactly the emitted sequence and then to no instruction.
EncodeDecodeRoundTrip ==
    pc = "built" =>
        LET words == query.program.program IN
        /\ Len(words) = SumAdvance(emitted, Len(emitted))
        /\ \A i \in 1..Len(emitted) :
              Word(words, SumAdvance(emitted, i - 1)) = OpCodeOf(emitted[i])
        /\ DecodeFrom(query.program, 0) = emitted
        /\ operation(query.program, Len(words)) = None

\* C21 witness: a four-word and a two-word instruction of the fact kind were
\* emitted, built and decoded back
EncodeDecodeRoundTripWitness ==
    /\ pc = "built"
    /\ emitted = <<GetStructure(1, 2, 0), UnifyVariable(2)>>
    /\ query.program.program = <<3, 1, 2, 0, 4, 2>>
    /\ DecodeFrom(query.program, 0) = emitted

(***************************************************************************)
(* Machine::build_term called on a root cell over a store driven through   *)
(* the Storage operations.  The term, or the reason there is none, is kept *)
(* in `result`.                                                            *)
(***************************************************************************)
\* the root cells handed to build_term: a cell of the store, a functor cell, or a
\* reference or structure pointer to an address in the store or next to its end
RootCells(store) ==
    {store[i] : i \in 1..Len(store)} \cup PushableCells(store)
        \cup {Funct(ident, arity) : ident \in Idents, arity \in Arities}

ReifyCell ==
    /\ pc = "storage"
    /\ \E cell \in RootCells(machine.storage.store) :
        /\ last' = [op |-> <<"build_term", cell>>, res |-> "true", before |-> machine,
                    phase |-> "reified"]
        /\ result' = <<build_term(machine, cell)>>
    /\ pc' = "reified"
    /\ UNCHANGED <<machine, query, knowledge, input, failed, consulted, builder, emitted,
                   calls>>

NextReify ==
    \/ StorageReset
    \/ StoragePushVar
    \/ StoragePushCell
    \/ StoragePushStruct
    \/ StorageBind
    \/ ReifyCell

SpecReify == InitStorage /\ [][NextReify]_vars

\* every cell of the store is a register still holding the default reset gave it
AllUnassigned(st) ==
    /\ Len(st.store) = st.regs
    /\ \A i \in 1..Len(st.store) : st.store[i] = Cell_default

\* the root is no valid term: a functor cell, the default of a register nothing
\* assigned, a reference or structure pointer out of the store, or a structure
\* whose argument slots are not all in the store
InvalidRoot(st, cell) ==
    \/ IsFunct(cell)
    \/ st.regs > 0 /\ AllUnassigned(st) /\ cell = Cell_default
    \/ (IsRef(cell) \/ IsStruct(cell)) /\ ~InBounds(st.store, cell[2])
    \/ /\ IsStruct(cell)
       /\ InBounds(st.store, cell[2])
       /\ IsFunct(At(st.store, cell[2]))
       /\ ~InBounds(st.store, cell[2] + At(st.store, cell[2])[3])

\* C22: build_term on a root that is no valid term reports "no term": it neither
\* produces a term nor panics.
InvalidRootReifiesToNoTerm ==
    (pc = "reified" /\ InvalidRoot(machine.storage, last.op[2])) =>
        result = <<NoTerm("None")>>

(***************************************************************************)
(* Claims about the heap during one Machine::query, under Spec.            *)
(***************************************************************************)
JustPerformedAny ==
    \/ JustPerformed("PutStructure")
    \/ JustPerformed("SetVariable")
    \/ JustPerformed("SetValue")
    \/ JustPerformed("GetStructure")
    \/ JustPerformed("UnifyVariable")
    \/ JustPerformed("UnifyValue")

\* the heap cells of `before` that differ in `after`
HeapChanged(regs, before, after) == {a \in Changed(before, after) : a >= regs}

\* C23: an instruction never shortens the store, and a heap cell (address >= regs)
\* that it changes was a self-referencing Ref and becomes a Ref to another
\* address, as bind writes it; no register write alters a heap cell.
HeapIsAppendOnly ==
    JustPerformedAny =>
        LET before == last.before.storage.store
            after == machine.storage.store
        IN  /\ Len(after) >= Len(before)
            /\ machine.storage.regs = last.before.storage.regs
            /\ \A a \in HeapChanged(machine.storage.regs, before, after) :
                  /\ SelfRef(before, a)
                  /\ IsRef(At(after, a))
                  /\ At(after, a)[2] # a

\* C24: GetStructure(id, n, x) on a register that dereferences to a free variable
\* at r, with k the store length before, appends Struct(k+1) at k and
\* Funct(id, n) at k+1, overwrites store[r] with Ref(k) and no other cell, sets
\* the mode to Write and returns true, and x then dereferences to Struct(k+1);
\* on a register that dereferences to Struct(a) with store[a] = Funct(id, n) it
\* changes no cell, sets sreg to a+1 and the mode to Read.
GetStructureBindsOrMatches ==
    JustPerformed("GetStructure") =>
        LET before == last.before.storage.store
            after == machine.storage.store
            x == last.op[4]
            c == deref(before, x)
            k == Len(before)
        IN  /\ (c.k = "Some" /\ IsRef(c.v)) =>
                  /\ after = SetAt(before \o <<Struct(k + 1), Funct(last.op[2], last.op[3])>>,
                                   c.v[2], Ref(k))
                  /\ machine.unification_state = "Write"
                  /\ last.res = "true"
                  /\ deref(after, x) = Some(Struct(k + 1))
            /\ (/\ c.k = "Some"
                /\ IsStruct(c.v)
                /\ InBounds(before, c.v[2])
                /\ At(before, c.v[2]) = Funct(last.op[2], last.op[3])) =>
                  /\ after = before
                  /\ machine.sreg = c.v[2] + 1
                  /\ machine.unification_state = "Read"

\* C24 witness: GetStructure found a free variable behind its register, at another
\* address than the register, and bound it to the structure it pushed
GetStructureBindsOrMatchesWitness ==
    /\ JustPerformed("GetStructure")
    /\ deref(last.before.storage.store, last.op[4]).k = "Some"
    /\ IsRef(deref(last.before.storage.store, last.op[4]).v)
    /\ deref(last.before.storage.store, last.op[4]).v[2] # last.op[4]
    /\ machine.unification_state = "Write"
    /\ Len(machine.storage.store) = Len(last.before.storage.store) + 2

(***************************************************************************)
(* StatementBuilder driven directly: any sequence of variable() and        *)
(* structure() calls on handles already handed out, then build() on any of *)
(* the handles.  `builder` holds the StatementBuilder, the built program   *)
(* becomes the only fact of `knowledge`.                                   *)
(***************************************************************************)
InitStatement ==
    /\ builder = StatementBuilder_default
    /\ pc = "stating"
    /\ calls = 0
    /\ emitted = <<>>
    /\ input = [q |-> <<>>, facts |-> <<>>]
    /\ query = QueryBuilder_build(QueryBuilder_default, 0)
    /\ knowledge = Knowledge_new
    /\ machine = Machine_default
    /\ last = NoLast
    /\ failed = FALSE
    /\ result = <<>>
    /\ consulted = 0

\* the handles handed out so far: StatementRef(1) .. StatementRef(len - 1)
Handles == 1..(Len(builder.registers) - 1)

StatementVariable ==
    /\ pc = "stating"
    /\ calls < MaxTermCalls
    /\ builder' = StatementBuilder_variable(builder).b
    /\ calls' = calls + 1
    /\ UNCHANGED <<machine, pc, query, knowledge, input, last, failed, result, consulted,
                   emitted>>

StatementStructure ==
    /\ pc = "stating"
    /\ calls < MaxTermCalls
    /\ \E ident \in Idents, subterms \in HandleSeqs(Len(builder.registers) - 1) :
        builder' = StatementBuilder_structure(builder, ident, subterms).b
    /\ calls' = calls + 1
    /\ UNCHANGED <<machine, pc, query, knowledge, input, last, failed, result, consulted,
                   emitted>>

StatementBuild ==
    /\ pc = "stating"
    /\ \E r \in Handles :
        /\ knowledge' = Knowledge_add(Knowledge_new, StatementBuilder_build(builder, r))
        /\ last' = [op |-> <<"build", r>>, res |-> "true", before |-> machine,
                    phase |-> "stated"]
    /\ pc' = "stated"
    /\ UNCHANGED <<machine, query, input, failed, result, consulted, builder, emitted, calls>>

NextStatement ==
    \/ StatementVariable
    \/ StatementStructure
    \/ StatementBuild

SpecStatement == InitStatement /\ [][NextStatement]_vars

\* the instructions of a word buffer, read off by the word layout of program.rs:
\* an opcode word followed by its operand words
RECURSIVE Instructions(_, _)
Instructions(program, p) ==
    LET op == operation(program, p) IN
    IF op.k = "None" THEN <<>>
    ELSE <<op.v>> \o Instructions(program, p + 1 + OperandWords(Word(program.program, p)))

\* the registers as build() sees them, after the swap of 0 and the root
Swapped == swap(builder.registers, last.op[2])

\* the registers reachable from register 0 through the subterms of structures
RECURSIVE ReachFrom(_, _, _)
ReachFrom(registers, seen, fuel) ==
    LET next == seen \cup UNION {Range(registers[r + 1][3]) :
                                   r \in {s \in seen : registers[s + 1][1] = "Struct"}}
    IN  IF next = seen \/ fuel = 0 THEN seen ELSE ReachFrom(registers, next, fuel - 1)

Reachable == ReachFrom(Swapped, {0}, Len(Swapped))

Built == Instructions(knowledge[1], 0)

IsUnify(op) == op[1] \in {"UnifyVariable", "UnifyValue"}

\* the instruction at i is GetStructure for the structure in register r, followed
\* by exactly one unify instruction for each of its subterms, in order
EmitsStructure(ops, i, r) ==
    LET alloc == Swapped[r + 1]
        n == Len(alloc[3])
    IN  /\ ops[i] = GetStructure(alloc[2], n, r)
        /\ i + n <= Len(ops)
        /\ \A j \in 1..n : IsUnify(ops[i + j]) /\ XReg(ops[i + j]) = alloc[3][j]
        /\ i + n < Len(ops) => ~IsUnify(ops[i + n + 1])

\* C25: the program built has exactly one GetStructure(id, n, r) for each
\* structure register r reachable from the root, also when a structure handle is
\* a subterm more than once, and each GetStructure is followed by exactly n unify
\* instructions naming the subterms in order.
OneGetStructurePerStructure ==
    pc = "stated" =>
        /\ \A r \in Reachable :
              Swapped[r + 1][1] = "Struct" =>
                  Cardinality({i \in 1..Len(Built) : Built[i][1] = "GetStructure"
                                                      /\ XReg(Built[i]) = r}) = 1
        /\ \A i \in 1..Len(Built) :
              Built[i][1] = "GetStructure" =>
                  /\ XReg(Built[i]) \in Reachable
                  /\ Swapped[XReg(Built[i]) + 1][1] = "Struct"
                  /\ EmitsStructure(Built, i, XReg(Built[i]))

\* the positions of the program at which register c is declared by UnifyVariable
Declared(ops, c) == {i \in 1..Len(ops) : ops[i] = UnifyVariable(c)}

\* C26: in a program built by StatementBuilder, for each register c other than 0,
\* at most one UnifyVariable(c) is emitted, and it comes before every
\* UnifyValue(c) and before every GetStructure(_, _, c): no instruction reads a
\* register before an earlier instruction assigned it.
DeclaredBeforeUse ==
    pc = "stated" =>
        /\ \A c \in 1..(Len(builder.registers) - 1) : Cardinality(Declared(Built, c)) <= 1
        /\ \A i \in 1..Len(Built) :
              (Built[i][1] \in {"UnifyValue", "GetStructure"} /\ XReg(Built[i]) # 0) =>
                  \E j \in Declared(Built, XReg(Built[i])) : j < i

\* C26 witness: a register is declared by UnifyVariable, then named by a
\* UnifyValue, then matched by a GetStructure
DeclaredBeforeUseWitness ==
    /\ pc = "stated"
    /\ \E c \in 1..(Len(builder.registers) - 1) :
          \E i, j, k \in 1..Len(Built) :
              /\ i < j
              /\ j < k
              /\ Built[i] = UnifyVariable(c)
              /\ Built[j] = UnifyValue(c)
              /\ Built[k][1] = "GetStructure"
              /\ XReg(Built[k]) = c

\* the allocation the caller built under the root handle
RootAllocation == builder.registers[last.op[2] + 1]

\* C27: when the root handle is a structure f/n the program built begins with
\* GetStructure(f, n, 0), register 0 is named by no other kind of instruction,
\* and every other register named by an instruction still holds the allocation
\* the caller built under that handle (the swap moved only the root); when the
\* root handle is a variable the program is empty.
RootSwapKeepsAllocations ==
    pc = "stated" =>
        /\ RootAllocation[1] = "Struct" =>
              /\ Len(Built) >= 1
              /\ Built[1] = GetStructure(RootAllocation[2], Len(RootAllocation[3]), 0)
        /\ RootAllocation[1] = "Var" => Built = <<>>
        /\ \A i \in 1..Len(Built) :
              LET c == XReg(Built[i]) IN
              IF c = 0
              THEN Built[i] = GetStructure(RootAllocation[2], Len(RootAllocation[3]), 0)
              ELSE /\ c \in Handles
                   /\ Swapped[c + 1] = builder.registers[c + 1]
                   /\ Built[i][1] = "GetStructure" =>
                         Built[i] = GetStructure(builder.registers[c + 1][2],
                                                 Len(builder.registers[c + 1][3]), c)

\* C27 witness: build was given a structure handle that is not the last one handed
\* out, with a subterm, and the program begins with its GetStructure on register 0
RootSwapKeepsAllocationsWitness ==
    /\ pc = "stated"
    /\ last.op[2] = 2
    /\ Len(builder.registers) = 4
    /\ RootAllocation = Alloc_Struct(1, <<1>>)
    /\ Built[1] = GetStructure(1, 1, 0)
    /\ Len(Built) >= 2

(***************************************************************************)
(* Machine::query against a Knowledge of two facts.                        *)
(***************************************************************************)
\* the facts added after the first one
LaterFacts == {<<CallVariable>>, PairFact, ExampleFact}

FactsInputs ==
    {[q |-> q, facts |-> <<f1, f2>>] :
        q \in Scripts(MaxCalls) \cup {ExampleQuery, PairQuery},
        f1 \in Scripts(MaxCalls) \cup {ExampleFact, PairFact},
        f2 \in LaterFacts}

InitFacts == InitWith(FactsInputs)

SpecFacts == InitFacts /\ [][Next]_vars

\* the register count Machine::query resets to
ResetCount(q, k) == Max(x_registers(q.program), Knowledge_x_registers(k))

\* Machine::query of the same query on a new Machine, against the first fact alone
FirstFactAlone == Machine_query(Machine_default, query, <<knowledge[1]>>)

\* C28: with facts F1, F2 in the Knowledge, only F1 is run: no instruction is
\* performed for a later fact, and when the query returns, the store and the
\* QueryResult are those of the same query against F1 alone, both runs having
\* reset to the same register count.
OnlyFirstFactConsulted ==
    /\ consulted <= 1
    /\ (pc = "fact" => CurrentProgram = knowledge[1])
    /\ (pc = "done" /\ Len(knowledge) >= 2
          /\ ResetCount(query, knowledge) = ResetCount(query, <<knowledge[1]>>)) =>
            /\ FirstFactAlone.res = "true"
            /\ FirstFactAlone.m.storage = machine.storage
            /\ FirstFactAlone.result = result

\* C28 witness: the query has returned after running the first of two facts, and
\* the second fact alone would have left another store
OnlyFirstFactConsultedWitness ==
    /\ pc = "done"
    /\ Len(knowledge) = 2
    /\ consulted = 1
    /\ last.phase = "fact"
    /\ Machine_query(Machine_default, query, <<knowledge[2]>>).m.storage # machine.storage

\* two reifications agree: the same term up to a one-to-one renaming of
\* variables, or the same failure to reify
ReifyAlike(t1, t2) == IF IsTerm(t1) /\ IsTerm(t2) THEN Canon(t1) = Canon(t2) ELSE t1 = t2

\* the term build_term reads from a cell, with a structure that contains itself
\* reported as no term ("Cyclic") as soon as it is met again on the way down
RECURSIVE Reify(_, _, _)
Reify(store, cell, above) ==
    IF IsRef(cell)
    THEN LET target == deref(store, cell[2])
         IN  IF target.k # "Some" THEN NoTerm(target.k)
             ELSE IF IsRef(target.v) THEN Term_Var(target.v[2])
             ELSE Reify(store, target.v, above)
    ELSE IF IsStruct(cell)
    THEN LET idx == cell[2]
             f == get_funct(store, idx)
         IN  IF idx \in above THEN NoTerm("Cyclic")
             ELSE IF f.k = "None" THEN NoTerm("None")
             ELSE IF f.v[3] = 0 THEN Term_Const(f.v[2])
             ELSE IF ~InBounds(store, idx + f.v[3]) THEN NoTerm("Panic")
             ELSE LET subterms == [i \in 1..f.v[3] |->
                                     Reify(store, At(store, idx + i), above \cup {idx})]
                      bad == FirstFailure(subterms, 1)
                  IN  IF bad = 0 THEN Term_Struct(f.v[2], subterms) ELSE subterms[bad]
    ELSE NoTerm("None")

\* every address of the two stores reifies alike
StoresReifyAlike(s1, s2) ==
    /\ Len(s1) = Len(s2)
    /\ \A a \in 0..(Len(s1) - 1) :
          ReifyAlike(Reify(s1, At(s1, a), {}), Reify(s2, At(s2, a), {}))

\* unify(a2, a1) on a copy of the store unify(a1, a2) was called on
Mirrored == unify(last.before.storage.store, last.op[3], last.op[2])

\* C29: on a store satisfying I1 and I4, unify(a1, a2) and unify(a2, a1) return
\* the same boolean, and when both return true the two resulting stores reify
\* every address to the same term up to variable renaming.
UnifyIsSymmetric ==
    (JustUnified /\ WellFormedBefore) =>
        /\ Mirrored.res = last.res
        /\ last.res = "true" => StoresReifyAlike(machine.storage.store, Mirrored.store)

\* C29 witness: unify returned true both ways round on two different free
\* variables, binding the first to the second one way and the second to the first
\* the other way
UnifyIsSymmetricWitness ==
    /\ JustUnified
    /\ WellFormedBefore
    /\ last.res = "true"
    /\ Mirrored.res = "true"
    /\ Mirrored.store # machine.storage.store
    /\ machine.storage.store # last.before.storage.store

\* no structure of the store contains itself
NoCyclicTerm(store) ==
    \A a \in 0..(Len(store) - 1) : Reify(store, At(store, a), {}) # NoTerm("Cyclic")

\* unify(a1, a2) called again, at once, on the store the first call left
Again == unify(machine.storage.store, last.op[2], last.op[3])

\* C30: unify never changes the length of the store and only overwrites cells
\* that were free variables, whatever it returns; and when it returned true on a
\* store with no cycle, the same call made again at once returns true and changes
\* no cell.
UnifyFrameAndIdempotence ==
    JustUnified =>
        LET before == last.before.storage.store
            after == machine.storage.store
        IN  /\ Len(after) = Len(before)
            /\ \A a \in Changed(before, after) : SelfRef(before, a)
            /\ (last.res = "true" /\ WellFormedBefore /\ NoCyclicTerm(before)) =>
                  /\ Again.res = "true"
                  /\ Again.store = after

\* C30 witness: unify returned true on a store with no cycle and bound a free
\* variable, and the same call made again returns true and changes nothing
UnifyFrameAndIdempotenceWitness ==
    /\ JustUnified
    /\ last.res = "true"
    /\ WellFormedBefore
    /\ NoCyclicTerm(last.before.storage.store)
    /\ Cardinality(Changed(last.before.storage.store, machine.storage.store)) >= 1
    /\ Again = [store |-> machine.storage.store, res |-> "true"]

(***************************************************************************)
(* Claims about reifying the answer of Machine::query, under Spec.         *)
(***************************************************************************)
\* build_term on the cell does not return: a structure contains itself, or a Ref
\* chain never ends
NeverReifies(store, cell) ==
    Reify(store, cell, {}) \in {NoTerm("Cyclic"), NoTerm("Hang")}

\* C31: after Machine::query has returned, build_term terminates on every
\* register of the QueryResult: no term reachable from a query register through
\* Struct and Ref links contains itself.
AnswersAreFiniteTerms ==
    pc = "done" =>
        \A i \in 1..Len(result) : ~NeverReifies(machine.storage.store, result[i])

====
